---- MODULE Spec2Model ----
(***************************************************************************)
(* A model of ffplayout.py: the time-aligned input builder (get_delta,     *)
(* timed_source, handle_list_end, src_or_dummy), the playlist iterator     *)
(* GetSourceIter, the folder source GetSource and the pipe pump of main(). *)
(*                                                                         *)
(* Times are integers counted in ticks, Sec ticks to the second, so that   *)
(* the code's comparisons against 1.0, 3.0 and 6 seconds have values on    *)
(* both sides and strictly between whole seconds.                          *)
(***************************************************************************)
EXTENDS Integers, Sequences, FiniteSets, TLC

\* ------------------------------------------------------------------------
\* bounds of the model
\* ------------------------------------------------------------------------

\* clock resolution: ticks per second
Sec == 2
\* the inputs of the input builder range over 0..MaxT ticks
MaxT == 7
\* the pump is followed for at most MaxEmit yielded argument vectors
MaxEmit == 4
\* a decoder writes at most MaxChunks chunks to its stdout
MaxChunks == 1
\* the wall clock runs ahead of the schedule at most MaxJumps times
MaxJumps == 1

\* the playlist file is rewritten or removed at most MaxEdits times
MaxEdits == 1
\* eof_handling is called at most MaxCalls times, and the clock is moved on
\* at most MaxCalls times between the calls
MaxCalls == 2
\* the watcher handles at most MaxEvents events of the media folder
MaxEvents == 2
\* MediaStore.fill is called at most MaxFills times
MaxFills == 2

\* ------------------------------------------------------------------------
\* program constants
\* ------------------------------------------------------------------------

\* 86400.0, the default target playtime and the day length in seconds
DaySecs == 86400
\* abs_tol of math.isclose(time_delta, 86400.0, abs_tol=6)
IscloseTol == 6
\* handle_list_end: "if new_length > 3.0" use the clip
SrcMinLen == 3
\* handle_list_end: "elif new_length > 1.0" generate a black clip
DummyMinLen == 1
\* timed_source: "if 1 > new_seek: new_seek = 0"
SeekMin == 1
\* eof_handling: "if filler and self.out > 2"
FillerMinLen == 2
\* eof_handling: "self.duration += 1" when the filler file is used
FillerExtra == 1
\* GetSourceIter.__init__: self.out = 20, self.duration = 20
DefaultDur == 20
\* the seconds eof_handling lets pass between two mails: "> 3600"
MailEvery == 3600

Day == DaySecs * Sec

Abs(x) == IF x < 0 THEN -x ELSE x

Min(a, b) == IF a < b THEN a ELSE b

\* math.ceil(a / b) for a >= 0, b > 0
CeilDiv(a, b) == (a + b - 1) \div b

\* ------------------------------------------------------------------------
\* the file system and the network, as the code's tests of them see it
\* ------------------------------------------------------------------------

\* os.path.isfile(src) is true for these
FileSrcs == {"a.mp4", "b.mp4", "c.mp4", "d.mp4", "filler.mp4", "mute.mp4", "bad.mp4"}
\* src.split('://')[0] in _pre_comp.protocols is true for these
LiveSrcs == {"rtmp://live"}
\* a playlist source that is neither
MissingSrc == "gone.mp4"

\* a file that ffprobe cannot read: MediaProbe.load leaves the null record
BadSrc == "bad.mp4"
\* a file without an audio stream
MuteSrc == "mute.mp4"

\* MediaProbe.load(path) ends with a format and a video stream
ProbeOk(path) == path \in (FileSrcs \cup LiveSrcs) \ {BadSrc}

\* MediaProbe.load(path) ends with a non-empty probe.audio
HasAudio(path) == ProbeOk(path) /\ path # MuteSrc

\* ffprobe's format=duration of the filler clip, in ticks (0: the probe fails)
FillerDuration(path) == IF path = "filler.mp4" THEN 3 * Sec ELSE 0

\* ------------------------------------------------------------------------
\* argument vectors: Python lists of strings.  An element is a record
\* [s, n]: the string s, and for a string formatted from a number
\* (str(seek), 'color=...:d={}') the number n that was formatted into it.
\* ------------------------------------------------------------------------

T(s) == [s |-> s, n |-> 0]

N(s, n) == [s |-> s, n |-> n]

\* src_cmd = None
NoneCmd == << T("None") >>

Contains(cmd, s) == \E i \in 1..Len(cmd) : cmd[i].s = s

\* seek_in without the test "seek > 0.0"
seek_in_Always(seek) == << T("-ss"), N("num", seek) >>

seek_in(seek) ==
    IF seek > 0 THEN << T("-ss"), N("num", seek) >> ELSE << >>

set_length(duration, seek, out) ==
    IF out < duration THEN << T("-t"), N("num", out - seek) >> ELSE << >>

loop_input(source, src_duration, target_duration) ==
    << T("-stream_loop"), N("num", CeilDiv(target_duration, src_duration)),
       T("-i"), T(source), T("-t"), N("num", target_duration) >>

gen_dummy(duration) ==
    << T("-f"), T("lavfi"), T("-i"), N("color", duration),
       T("-f"), T("lavfi"), T("-i"), N("anoisesrc", duration) >>

gen_filler(c, duration) ==
    IF c.filler = ""
    THEN gen_dummy(duration)
    ELSE LET file_duration == FillerDuration(c.filler)
         IN  IF file_duration # 0
             THEN IF file_duration > duration
                  THEN << T("-i"), T(c.filler) >>
                       \o set_length(file_duration, 0, duration)
                  ELSE loop_input(c.filler, file_duration, duration)
             ELSE gen_dummy(duration)

\* src_or_dummy with a dummy as long as out
src_or_dummy_LongDummy(src, dur, seek, out) ==
    IF src # "" /\ src \in LiveSrcs
    THEN << T("-i"), T(src) >> \o set_length(dur, seek, out)
    ELSE IF src # "" /\ src \in FileSrcs
    THEN IF out > dur
         THEN IF seek > 0
              THEN << T("-i"), T(src) >> \o set_length(dur, seek, out - seek)
              ELSE loop_input(src, dur, out)
         ELSE seek_in(seek) \o << T("-i"), T(src) >> \o set_length(dur, seek, out)
    ELSE gen_dummy(out)

src_or_dummy(src, dur, seek, out) ==
    IF src # "" /\ src \in LiveSrcs
    THEN << T("-i"), T(src) >> \o set_length(dur, seek, out)
    ELSE IF src # "" /\ src \in FileSrcs
    THEN IF out > dur
         THEN IF seek > 0
              THEN << T("-i"), T(src) >> \o set_length(dur, seek, out - seek)
              ELSE loop_input(src, dur, out)
         ELSE seek_in(seek) \o << T("-i"), T(src) >> \o set_length(dur, seek, out)
    ELSE gen_dummy(out - seek)

\* build_filtergraph with "if audio_chain:" taken as false
build_filtergraph_NoAudioFilter(dummy, probe) ==
    LET video_filter == << T("-filter_complex"), T("[0:v]") >>
        video_map == << T("-map"), T("[logo]") >>
    IN  IF dummy
        THEN video_filter \o video_map \o << T("-map"), T("1:a") >>
        ELSE video_filter \o video_map \o << T("-map"), T("0:a") >>

\* build_filtergraph for a probe that holds streams; of the filter strings
\* only the first stage is kept
build_filtergraph(dummy, probe) ==
    LET video_filter == << T("-filter_complex"), T("[0:v]") >>
        video_map == << T("-map"), T("[logo]") >>
        audio_chain == IF HasAudio(probe) THEN "[0:a]anull" ELSE "aevalsrc"
    IN  IF dummy
        THEN video_filter \o video_map \o << T("-map"), T("1:a") >>
        ELSE video_filter \o << T("-filter_complex"), T(audio_chain) >>
             \o video_map \o << T("-map"), T("[a]") >>

\* ------------------------------------------------------------------------
\* the time-aligned input builder.  c is the configuration (_playlist,
\* _general, stdin_args.loop), now is get_time('full_sec').
\* ------------------------------------------------------------------------

TargetPlaytime(c) == IF c.length # 0 THEN c.length ELSE Day

\* a get_delta that takes the clip to start on time
get_delta_OnTime(c, now, begin, seek, first) ==
    [target_playtime |-> TargetPlaytime(c), time_delta |-> 0, exit |-> FALSE]

\* returns target_playtime and time_delta; exit is TRUE when the call ends
\* in terminate_processes(); sys.exit(1)
get_delta(c, now, begin, seek, first) ==
    LET target_playtime == TargetPlaytime(c)
        current_time == IF c.start >= now /\ begin # c.start
                        THEN now + target_playtime ELSE now
        d0 == IF first THEN begin + seek - current_time
                       ELSE begin - current_time
        time_delta == IF Abs(d0 - Day) <= IscloseTol * Sec THEN d0 - Day ELSE d0
    IN  [target_playtime |-> target_playtime,
         time_delta      |-> time_delta,
         exit            |-> ~first /\ ~c.loop /\ c.stop
                              /\ Abs(time_delta) > c.threshold]

\* the result of timed_source and handle_list_end:
\* (src_cmd, seek, out, next_playlist), and the branch that produced it
Result(cmd, seek, out, np, branch) ==
    [cmd |-> cmd, seek |-> seek, out |-> out, next_playlist |-> np,
     branch |-> branch]

\* the handler without its "prevent looping" cut at the clip's duration
handle_list_end_NoCut(time_delta, ref_time, src, begin, dur, seek, out) ==
    LET new_length == ref_time - (begin + time_delta)
        new_out == IF seek > 0 THEN seek + new_length ELSE new_length
    IN  IF new_length > 0
        THEN Result(src_or_dummy(src, dur, seek, new_out), seek, new_out,
                    TRUE, "list_end")
        ELSE Result(src_or_dummy(src, dur, seek, out), seek, out,
                    FALSE, "list_end")

\* the handler with the source down to a remaining second
handle_list_end_NoDummy(time_delta, ref_time, src, begin, dur, seek, out) ==
    LET new_length == ref_time - (begin + time_delta)
        out0 == IF seek > 0 THEN seek + new_length ELSE new_length
        new_out == IF out0 > dur THEN dur ELSE out0
    IN  IF new_length > DummyMinLen * Sec
        THEN Result(src_or_dummy(src, dur, seek, new_out), seek, new_out,
                    TRUE, "list_end")
        ELSE IF new_length > 0
        THEN Result(NoneCmd, seek, new_out, TRUE, "list_end")
        ELSE Result(src_or_dummy(src, dur, seek, out), seek, out,
                    FALSE, "list_end")

handle_list_end(time_delta, ref_time, src, begin, dur, seek, out) ==
    LET new_length == ref_time - (begin + time_delta)
        out0 == IF seek > 0 THEN seek + new_length ELSE new_length
        new_out == IF out0 > dur THEN dur ELSE out0
    IN  IF new_length > SrcMinLen * Sec
        THEN Result(src_or_dummy(src, dur, seek, new_out), seek, new_out,
                    TRUE, "list_end")
        ELSE IF new_length > DummyMinLen * Sec
        THEN Result(gen_dummy(new_length), seek, new_out, TRUE, "list_end")
        ELSE IF new_length > 0
        THEN Result(NoneCmd, seek, new_out, TRUE, "list_end")
        ELSE Result(src_or_dummy(src, dur, seek, out), seek, out,
                    FALSE, "list_end")

\* the first clip's seek without the test "1 > new_seek"
first_seek_NoClamp(time_delta) == Abs(time_delta)

first_seek(time_delta) ==
    IF SeekMin * Sec > Abs(time_delta) THEN 0 ELSE Abs(time_delta)

\* timed_source after get_delta has returned
timed_source(c, time_delta, target_playtime, src, begin, dur, seek, out, first, last) ==
    LET ref_time == target_playtime + c.start
    IN  IF first
        THEN Result(src_or_dummy(src, dur, first_seek(time_delta), out),
                    first_seek(time_delta), out, FALSE, "first")
        ELSE IF (begin + out + time_delta < ref_time /\ ~last)
                \/ c.length = 0 \/ c.loop
        THEN Result(src_or_dummy(src, dur, seek, out), seek, out, FALSE, "window")
        ELSE IF begin + time_delta > ref_time
        THEN Result(NoneCmd, 0, 0, TRUE, "past")
        ELSE IF begin + out + time_delta > ref_time \/ last
        THEN handle_list_end(time_delta, ref_time, src, begin, dur, seek, out)
        ELSE Result(NoneCmd, 0, 0, TRUE, "exact")

\* ------------------------------------------------------------------------
\* state
\* ------------------------------------------------------------------------

VARIABLES
    cfg,        \* the configuration namespaces and stdin_args
    clock,      \* [now, today]: seconds-of-day in ticks, and the date;
                \* jumps counts the jumps made, t0 is now at the start
    disk,       \* the playlist file: [state, mtime, program]
    it,         \* the GetSourceIter object
    store,      \* MediaStore.store, the folder source's list of paths
    gs,         \* the GetSource object: [index, last_played, at_yield]
    call,       \* the arguments and the result of the last timed_source call
    pc,         \* where main() stands
    exc,        \* the exception main() is unwinding with, "" for none
    cause,      \* the last exception raised in the try block, "" for none
    ff,         \* _ff: [decoder, encoder], the state of the two children
    watcher,    \* "none" (playlist mode), "running", "stopped" (and joined)
    todo,       \* chunks the running decoder has still to write
    pipe,       \* chunks written by the decoder and not yet read
    buf,        \* the chunk main() has read and not yet written
    dec_log,    \* the chunks the decoder of this clip wrote to its stdout
    enc_in,     \* the chunks of this clip written to the encoder's stdin
    yielded,    \* the argument vectors the iterator has yielded, in order
    siglog,     \* the terminate()/stop() calls made, in order
    pending,    \* "" in a run the environment leaves alone; else "armed"
                \* while a signal may still arrive, "fired" after it
    exit_status, \* the exit status of the process, -1 while it runs
    media,      \* the media folder and the watcher's thread: dir the paths
                \* on disk, fills the fill() calls made and first the store
                \* after the first, wpc where the thread stands, events the
                \* events it has handled, dest the path a move leads to,
                \* torn whether the folder source read the store mid-event
    mail,       \* the messenger: the mailer's level, _mail.recip, whether the
                \* SMTP server answers, the iterator's last_error and
                \* timestamp, and what eof_handling has made of them: calls
                \* counts its calls, logged are the lines logged and sent
                \* the mails sent, each with its time
    conf        \* the configuration beyond cfg: load is _init.load, file
                \* what the configuration file holds, ns the namespaces

vars == << cfg, clock, disk, it, store, gs, call, pc, exc, cause, ff, watcher, todo, pipe, buf,
           dec_log, enc_in, yielded, siglog, pending, exit_status, media, mail, conf >>

\* ------------------------------------------------------------------------
\* clock and date
\* ------------------------------------------------------------------------

get_date(c, clk, seek_day) ==
    IF seek_day /\ clk.now < c.start THEN clk.today - 1 ELSE clk.today

\* the wall clock d ticks later, j of them a jump ahead of the schedule
Later(clk, d, j) ==
    [now   |-> (clk.now + d + j) % Day,
     today |-> clk.today + ((clk.now + d + j) \div Day),
     jumps |-> clk.jumps + (IF j > 0 THEN 1 ELSE 0),
     t0    |-> clk.t0]

\* ------------------------------------------------------------------------
\* GetSourceIter
\* ------------------------------------------------------------------------

\* GetSourceIter.__init__
NewIter(c, clk) ==
    LET total == TargetPlaytime(c)
    IN  [init_time      |-> c.start,
         last_time      |-> IF clk.now < c.start THEN clk.now + total ELSE clk.now,
         total_playtime |-> total,
         last_mod_time  |-> 0,
         loaded         |-> FALSE,
         program        |-> << >>,
         src_cmd        |-> NoneCmd,
         first          |-> TRUE,
         last           |-> FALSE,
         list_date      |-> get_date(c, clk, TRUE),
         is_dummy       |-> FALSE,
         probe          |-> "",
         filtergraph    |-> << >>,
         raised         |-> FALSE,
         src            |-> "",
         seek           |-> 0,
         out            |-> DefaultDur * Sec,
         duration       |-> DefaultDur * Sec,
         begin          |-> 0,
         np_set         |-> FALSE,
         next_playlist  |-> FALSE,
         ad             |-> FALSE,
         ad_last        |-> FALSE,
         ad_next        |-> FALSE,
         logo_filter    |-> << >>]

\* the logo files that exist
LogoFiles == {"logo.png"}

\* overlay_filter without the test "not ad"
overlay_filter_NoAdTest(ns, duration, ad, ad_last, ad_next) ==
    IF ns.add_logo /\ ns.logo \in LogoFiles
    THEN << N("movie", duration) >>
         \o (IF ad_last THEN << N("fade=in", 0) >> ELSE << >>)
         \o (IF ad_next THEN << N("fade=out", duration - Sec) >> ELSE << >>)
    ELSE << T("null") >>

\* overlay_filter, ns the namespace _pre_comp: the stages of the logo chain,
\* or the pass-through '[v]null[logo]'
overlay_filter(ns, duration, ad, ad_last, ad_next) ==
    IF ns.add_logo /\ ns.logo \in LogoFiles /\ ~ad
    THEN << N("movie", duration) >>
         \o (IF ad_last THEN << N("fade=in", 0) >> ELSE << >>)
         \o (IF ad_next THEN << N("fade=out", duration - Sec) >> ELSE << >>)
    ELSE << T("null") >>

\* GetSourceIter.set_filtergraph; raised: build_filtergraph has read a stream
\* of the null record (deinterlace_filter: probe.video[0] is None);
\* logo_filter is the logo stage of the video filter, which build_filtergraph
\* makes with overlay_filter(out - seek, ad, ad_last, ad_next), seek taken
\* as 0 when out > duration
set_filtergraph(itr) ==
    IF ~itr.is_dummy /\ ~ProbeOk(itr.probe)
    THEN [itr EXCEPT !.raised = TRUE]
    ELSE [itr EXCEPT
            !.filtergraph = build_filtergraph(itr.is_dummy, itr.probe),
            !.logo_filter =
                overlay_filter(conf.ns,
                               IF itr.out > itr.duration
                               THEN itr.out ELSE itr.out - itr.seek,
                               itr.ad, itr.ad_last, itr.ad_next)]

\* GetSourceIter.eof_handling(message, filler) up to set_filtergraph
eof_fields(itr, c, clk, filler) ==
    LET ref_time == itr.total_playtime + c.start
        current_time == IF clk.now < c.start
                        THEN clk.now + itr.total_playtime ELSE clk.now
        time_diff == itr.out - 0 + current_time
        new_len == itr.out - 0 - (time_diff - ref_time)
        len == Abs(new_len)
        use_filler == filler /\ len > FillerMinLen * Sec
        file_ok == c.filler # "" /\ c.filler \in FileSrcs
    IN  [itr EXCEPT
            !.seek = 0,
            !.ad = FALSE,
            !.out = len,
            !.duration = IF use_filler /\ file_ok THEN len + FillerExtra * Sec ELSE len,
            !.list_date = get_date(c, clk, FALSE),
            !.last_mod_time = 0,
            !.first = FALSE,
            !.last_time = 0,
            !.src_cmd = IF use_filler THEN gen_filler(c, len) ELSE gen_dummy(len),
            !.is_dummy = ~(use_filler /\ file_ok),
            !.probe = IF use_filler /\ file_ok THEN c.filler ELSE itr.probe,
            !.last = FALSE]

\* GetSourceIter.eof_handling(message, filler)
eof_handling(itr, c, clk, filler) == set_filtergraph(eof_fields(itr, c, clk, filler))

\* GetSourceIter.get_playlist
get_playlist(itr, c, clk, dsk) ==
    IF dsk.state \in {"ok", "invalid"}
    THEN IF dsk.mtime > itr.last_mod_time
         THEN IF dsk.state = "ok"
              THEN [itr EXCEPT !.loaded = TRUE, !.program = dsk.program,
                               !.last_mod_time = dsk.mtime]
              ELSE [itr EXCEPT !.loaded = FALSE, !.program = << >>,
                               !.last_mod_time = dsk.mtime]
         ELSE itr
    ELSE eof_handling(itr, c, clk, FALSE)

\* GetSourceIter.get_clip_in_out
get_clip_in_out(itr, node) ==
    [itr EXCEPT !.seek = node.in, !.duration = node.duration, !.out = node.out]

\* GetSourceIter.url_or_live_source, for a live source whose probe prints
\* no number ("N/A")
url_or_live_source(itr) ==
    IF itr.src # "" /\ itr.src \in LiveSrcs
    THEN [itr EXCEPT !.duration = itr.total_playtime,
                     !.out = itr.out - itr.seek,
                     !.seek = 0]
    ELSE itr

\* GetSourceIter.is_source_dummy
is_source_dummy(itr) ==
    [itr EXCEPT !.is_dummy = (itr.src_cmd # NoneCmd /\ Contains(itr.src_cmd, "lavfi"))]

\* check_for_next_playlist without the branch for other lengths
check_for_next_playlist_NoFreeze(itr, c, clk) ==
    IF ~itr.next_playlist
    THEN [itr EXCEPT !.last_time = itr.begin]
    ELSE [itr EXCEPT !.list_date = get_date(c, clk, FALSE),
                     !.last_mod_time = 0,
                     !.last_time = c.start - 1]

\* GetSourceIter.check_for_next_playlist
check_for_next_playlist(itr, c, clk) ==
    IF ~itr.next_playlist
    THEN [itr EXCEPT !.last_time = itr.begin]
    ELSE IF c.length # Day
    THEN [itr EXCEPT !.last_time = Day * 2]
    ELSE [itr EXCEPT !.list_date = get_date(c, clk, FALSE),
                     !.last_mod_time = 0,
                     !.last_time = c.start - 1]

\* what timed_source was called with and what it returned
Call(itr, now, gd, res) ==
    [made |-> TRUE, src |-> itr.src, begin |-> itr.begin, dur |-> itr.duration,
     seek |-> itr.seek, out |-> itr.out, first |-> itr.first, last |-> itr.last,
     now |-> now, time_delta |-> gd.time_delta,
     target_playtime |-> gd.target_playtime, exit |-> gd.exit, res |-> res]

NoCall ==
    [made |-> FALSE, src |-> "", begin |-> 0, dur |-> 0, seek |-> 0, out |-> 0,
     first |-> FALSE, last |-> FALSE, now |-> 0, time_delta |-> 0,
     target_playtime |-> 0, exit |-> FALSE,
     res |-> Result(NoneCmd, 0, 0, FALSE, "")]

\* GetSourceIter.get_input: the call of timed_source, once get_delta has
\* returned gd
timed_call(itr, c, now, gd) ==
    Call(itr, now, gd,
         timed_source(c, gd.time_delta, gd.target_playtime, itr.src, itr.begin,
                      itr.duration, itr.seek, itr.out, itr.first, itr.last))

\* GetSourceIter.get_input
get_input(itr, c, clk) ==
    timed_call(itr, c, clk.now,
               get_delta(c, clk.now, itr.begin, itr.seek, itr.first))

\* GetSourceIter.get_input: the assignment of the call's result
set_input(itr, res) ==
    [itr EXCEPT !.src_cmd = res.cmd, !.seek = res.seek, !.out = res.out,
                !.next_playlist = res.next_playlist, !.np_set = TRUE]

\* the node has the key "category"
HasCategory(node) == "category" \in DOMAIN node

IsAd(node) == node.category = "advertisement"

\* GetSourceIter.get_category(index, node), index counted from 1; raised:
\* a neighbour of a node with a category has none (KeyError)
get_category(itr, index) ==
    LET program == itr.program
        node == program[index]
        has_last == index - 1 >= 1
        has_next == index + 1 <= Len(program)
    IN  IF ~HasCategory(node)
        THEN itr
        ELSE IF (has_last /\ ~HasCategory(program[index - 1]))
                \/ (has_next /\ ~HasCategory(program[index + 1]))
        THEN [itr EXCEPT !.raised = TRUE]
        ELSE [itr EXCEPT
                !.ad = IsAd(node),
                !.ad_last = has_last /\ IsAd(program[index - 1]),
                !.ad_next = has_next /\ IsAd(program[index + 1])]

\* GetSourceIter.peperation_task from get_input on, cl the call it makes:
\* [it, call]; when call.exit the task ended in get_delta's sys.exit(1) and
\* it is the state at that point
prepare(itr, cl, c, clk, index) ==
    IF cl.exit
    THEN [it |-> itr, call |-> cl]
    ELSE [it |-> check_for_next_playlist(
                     set_filtergraph(
                         get_category(is_source_dummy(set_input(itr, cl.res)),
                                      index)),
                     c, clk),
          call |-> cl]

\* GetSourceIter.peperation_task from url_or_live_source on
prepare_src(itr, c, clk, index) ==
    prepare(itr, get_input(itr, c, clk), c, clk, index)

\* GetSourceIter.peperation_task(index, node), index counted from 1
peperation_task(itr, c, clk, index, node) ==
    prepare_src(url_or_live_source([itr EXCEPT !.src = node.source,
                                               !.probe = node.source]),
                c, clk, index)

\* the for loop of GetSourceIter.next from entry i on: the entry it breaks
\* at (sel = 0: it ran to its end), whether it broke in the "first time we
\* end up here" branch, and the object's fields at that point
RECURSIVE Walk(_, _)
Walk(itr, i) ==
    IF i > Len(itr.program)
    THEN [it |-> itr, sel |-> 0, catchup |-> FALSE]
    ELSE LET it1 == get_clip_in_out(itr, itr.program[i])
         IN  IF it1.first /\ it1.last_time < it1.begin + it1.out - it1.seek
             THEN [it |-> it1, sel |-> i, catchup |-> TRUE]
             ELSE IF it1.last_time < it1.begin
             THEN [it |-> [it1 EXCEPT !.last = (i = Len(it1.program))],
                   sel |-> i, catchup |-> FALSE]
             ELSE Walk([it1 EXCEPT !.begin = it1.begin + it1.out - it1.seek], i + 1)

\* what a round of the while loop of GetSourceIter.next ends in:
\* [it, call, outcome], outcome one of
\*   "yield"    the round ends in a yield of it.src_cmd
\*   "continue" the round ends without a yield
\*   "return"   the generator returns
\*   "exit"     get_delta called terminate_processes() and sys.exit(1)
\*   "error"    the round raised another exception
Outcome(itr, cl, o) == [it |-> itr, call |-> cl, outcome |-> o]

\* "if self.src_cmd is not None: yield self.src_cmd + self.filtergraph"
emit(itr, cl) ==
    Outcome(itr, cl, IF itr.raised THEN "error"
                     ELSE IF itr.src_cmd # NoneCmd THEN "yield" ELSE "continue")

\* the round after peperation_task, in the branch that clears first or not
after_task(task, catchup) ==
    IF task.call.exit
    THEN Outcome(task.it, task.call, "exit")
    ELSE emit([task.it EXCEPT !.first = IF catchup THEN FALSE ELSE @], task.call)

\* the else clause of the for loop, x the object after check_for_next_playlist
loop_branch(x, prev) ==
    Outcome([x EXCEPT !.init_time = x.last_time + 1, !.src_cmd = NoneCmd],
            prev, "continue")

\* the round after the for loop, without the branch that stops the script
after_walk_NoReturn(w, c, clk, prev) ==
    IF w.sel # 0
    THEN after_task(peperation_task(w.it, c, clk, w.sel, w.it.program[w.sel]),
                    w.catchup)
    ELSE IF c.loop
    THEN IF ~w.it.np_set
         THEN Outcome(w.it, prev, "error")
         ELSE loop_branch(check_for_next_playlist(w.it, c, clk), prev)
    ELSE IF w.it.begin = w.it.init_time
    THEN emit(eof_handling(w.it, c, clk, FALSE), prev)
    ELSE emit(eof_handling(w.it, c, clk, TRUE), prev)

\* the round after the for loop
after_walk(w, c, clk, prev) ==
    IF w.sel # 0
    THEN after_task(peperation_task(w.it, c, clk, w.sel, w.it.program[w.sel]),
                    w.catchup)
    ELSE IF c.loop
    THEN IF ~w.it.np_set
         THEN Outcome(w.it, prev, "error")
         ELSE loop_branch(check_for_next_playlist(w.it, c, clk), prev)
    ELSE IF c.length = 0
    THEN Outcome(w.it, prev, "return")
    ELSE IF w.it.begin = w.it.init_time
    THEN emit(eof_handling(w.it, c, clk, FALSE), prev)
    ELSE emit(eof_handling(w.it, c, clk, TRUE), prev)

\* the round after get_playlist
after_load(itr, c, clk, prev) ==
    IF itr.raised
    THEN Outcome(itr, prev, "error")
    ELSE IF ~itr.loaded
    THEN IF itr.src_cmd = NoneCmd
         THEN Outcome(itr, prev, "error")
         ELSE Outcome(set_filtergraph([itr EXCEPT !.is_dummy = TRUE]), prev, "yield")
    ELSE after_walk(Walk([itr EXCEPT !.begin = itr.init_time], 1), c, clk, prev)

\* one round of the while loop of GetSourceIter.next
iter_round(itr, c, clk, dsk, prev) ==
    after_load(get_playlist(itr, c, clk, dsk), c, clk, prev)

\* ------------------------------------------------------------------------
\* GetSource, the folder source
\* ------------------------------------------------------------------------

\* GetSource.__init__
NewSource == [index |-> 0, last_played |-> << >>, at_yield |-> FALSE, probe |-> ""]

InSeq(x, q) == \E i \in 1..Len(q) : q[i] = x

\* the shuffle round without the test "clip not in self.last_played"
shuffle_round_NoHistory(g, st, choice) ==
    [gs |-> [g EXCEPT !.probe = st[choice]],
     outcome |-> IF ProbeOk(st[choice]) THEN "yield" ELSE "error",
     cmd |-> << T("-i"), T(st[choice]) >> \o build_filtergraph(FALSE, st[choice])]

\* the shuffle round without "self.last_played.pop(0)"
shuffle_round_NoEvict(g, st, choice) ==
    IF ~InSeq(st[choice], g.last_played)
    THEN [gs |-> [g EXCEPT !.last_played = Append(g.last_played, st[choice]),
                           !.probe = st[choice]],
          outcome |-> IF ProbeOk(st[choice]) THEN "yield" ELSE "error",
          cmd |-> << T("-i"), T(st[choice]) >>
                  \o build_filtergraph(FALSE, st[choice])]
    ELSE [gs |-> g, outcome |-> "continue", cmd |-> NoneCmd]

\* the sorted round without "self.index += 1"
sorted_round_NoStep(g, st) ==
    [gs |-> [g EXCEPT !.at_yield = TRUE, !.probe = st[g.index + 1]],
     outcome |-> IF ProbeOk(st[g.index + 1]) THEN "yield" ELSE "error",
     cmd |-> << T("-i"), T(st[g.index + 1]) >>
             \o build_filtergraph(FALSE, st[g.index + 1])]

\* one round of the outer while loop of GetSource.next in shuffle mode, with
\* random.choice picking st[choice]: [gs, outcome, cmd]
shuffle_round(g, st, choice) ==
    LET clip == st[choice]
        lp == IF Len(g.last_played) * 2 > Len(st)
              THEN Tail(g.last_played) ELSE g.last_played
    IN  IF ~InSeq(clip, lp)
        THEN [gs |-> [g EXCEPT !.last_played = Append(lp, clip), !.probe = clip],
              outcome |-> IF ProbeOk(clip) THEN "yield" ELSE "error",
              cmd |-> << T("-i"), T(clip) >> \o build_filtergraph(FALSE, clip)]
        ELSE [gs |-> [g EXCEPT !.last_played = lp],
              outcome |-> "continue", cmd |-> NoneCmd]

\* the sorted mode of GetSource.next, resumed where it stands: after the
\* yield (at_yield) "self.index += 1" runs first
sorted_round(g, st) ==
    LET index == IF g.at_yield THEN g.index + 1 ELSE g.index
    IN  IF index < Len(st)
        THEN [gs |-> [g EXCEPT !.index = index, !.at_yield = TRUE,
                               !.probe = st[index + 1]],
              outcome |-> IF ProbeOk(st[index + 1]) THEN "yield" ELSE "error",
              cmd |-> << T("-i"), T(st[index + 1]) >>
                      \o build_filtergraph(FALSE, st[index + 1])]
        ELSE [gs |-> [g EXCEPT !.index = 0, !.at_yield = FALSE],
              outcome |-> "continue", cmd |-> NoneCmd]

\* ------------------------------------------------------------------------
\* the children and terminate_processes
\* ------------------------------------------------------------------------

\* Popen.poll() is None
Alive(child) == child \in {"running", "closed"}

\* a terminate() or stop() call, with what poll() had just returned
Sig(to, child) == [to |-> to, alive |-> Alive(child)]

\* terminate_processes without the tests of poll()
terminate_processes_NoPoll(f, w) ==
    (IF f.decoder # "none" THEN << Sig("decoder", f.decoder) >> ELSE << >>)
    \o << Sig("encoder", f.encoder) >>
    \o (IF w # "none" THEN << Sig("watcher", w) >> ELSE << >>)

\* the calls terminate_processes(watcher) makes, in order
terminate_processes(f, w) ==
    (IF f.decoder # "none" /\ Alive(f.decoder)
     THEN << Sig("decoder", f.decoder) >> ELSE << >>)
    \o (IF Alive(f.encoder) THEN << Sig("encoder", f.encoder) >> ELSE << >>)
    \o (IF w # "none" THEN << Sig("watcher", w) >> ELSE << >>)

\* watcher.stop(): observer.stop(); observer.join()
StopWatcher(w) == IF w # "none" THEN "stopped" ELSE w

\* Popen.__exit__ when the with block is left by an exception: stdout is
\* closed and the decoder waited for; on KeyboardInterrupt the wait is
\* bounded, and the decoder may outlive it
WithExit(f, e) ==
    IF e = "KeyboardInterrupt"
    THEN {f, [f EXCEPT !.decoder = "exited"]}
    ELSE {[f EXCEPT !.decoder = "exited"]}

\* the copy loop left as soon as the decoder has exited
CopyDone_NoDrain(b, child) == ~Alive(child)

\* the test that ends the copy loop of a clip
CopyDone(b, child) == b = << >> /\ ~Alive(child)

\* ------------------------------------------------------------------------
\* main(): the pipe pump
\* ------------------------------------------------------------------------

\* the scheduled length of the clip just yielded
PlayLen == IF cfg.mode = "playlist" /\ it.out > it.seek THEN it.out - it.seek ELSE 0

\* how far the wall clock may run ahead of the scheduled length of a clip
Jitters == IF clock.jumps < MaxJumps THEN {0, 2 * Sec} ELSE {0}

Raise(e) ==
    /\ exc' = e
    /\ cause' = e
    /\ pc' = "except"

\* the for statement of main() with the round of the iterator ending in r
Resume(r) ==
    /\ it' = r.it
    /\ call' = r.call
    /\ yielded' = IF r.outcome = "yield"
                  THEN Append(yielded, r.it.src_cmd \o r.it.filtergraph)
                  ELSE yielded
    /\ pc' = CASE r.outcome = "yield" -> "popen"
               [] r.outcome = "continue" -> "next"
               [] r.outcome = "return" -> "close"
               [] r.outcome = "exit" -> "except"
               [] OTHER -> "wait"
    /\ exc' = CASE r.outcome = "exit" -> "SystemExit(1)"
                [] r.outcome = "error" -> "Error"
                [] OTHER -> exc
    /\ cause' = exc'
    /\ siglog' = IF r.outcome = "exit"
                 THEN siglog \o terminate_processes(ff, "none")
                 ELSE siglog

\* a round of the iterator's loop, entered by the for statement of main()
NextPlaylist ==
    /\ pc = "next" /\ cfg.mode = "playlist"
    /\ Len(yielded) < MaxEmit
    /\ Resume(iter_round(it, cfg, clock, disk, call))
    /\ UNCHANGED << cfg, clock, disk, store, gs, ff, watcher, todo, pipe, buf,
                    dec_log, enc_in, pending, exit_status, media, mail, conf >>

\* one round of the outer while loop of GetSource.next: random.choice
\* raises IndexError for an empty list, the sorted mode's inner while does
\* not run and its else clause sets the index to 0
GetSource_next(c, g, st, choice) ==
    IF c.shuffle
    THEN IF st = << >>
         THEN [gs |-> g, outcome |-> "IndexError", cmd |-> NoneCmd]
         ELSE shuffle_round(g, st, choice)
    ELSE sorted_round(g, st)

NextFolder ==
    /\ pc = "next" /\ cfg.mode = "folder"
    /\ Len(yielded) < MaxEmit
    /\ \E choice \in (IF store = << >> THEN {1} ELSE 1..Len(store)) :
         LET r == GetSource_next(cfg, gs, store, choice)
         IN  /\ gs' = r.gs
             /\ yielded' = IF r.outcome = "yield"
                           THEN Append(yielded, r.cmd) ELSE yielded
             /\ pc' = CASE r.outcome = "yield" -> "popen"
                        [] r.outcome = "continue" -> "next"
                        [] OTHER -> "wait"
             /\ exc' = CASE r.outcome = "error" -> "Error"
                         [] r.outcome = "IndexError" -> "IndexError"
                         [] OTHER -> exc
             /\ cause' = exc'
    /\ UNCHANGED << cfg, clock, disk, it, store, call, ff, watcher, todo,
                    pipe, buf, dec_log, enc_in, siglog, pending, exit_status, media, mail, conf >>

\* with Popen([...] + src_cmd + ff_pre_settings, stdout=PIPE) as _ff.decoder
SpawnDecoder ==
    /\ pc = "popen"
    /\ \E n \in 0..MaxChunks : todo' = n
    /\ ff' = [ff EXCEPT !.decoder = "running"]
    /\ pipe' = << >>
    /\ dec_log' = << >>
    /\ enc_in' = << >>
    /\ pc' = "read"
    /\ UNCHANGED << cfg, clock, disk, it, store, gs, call, exc, cause, watcher, buf,
                    yielded, siglog, pending, exit_status, media, mail, conf >>

\* buf = _ff.decoder.stdout.read(65424), and the test that follows it; when
\* the loop breaks the with block ends (Popen.__exit__ waits for the
\* decoder) and the clip's time has passed
ReadChunk ==
    /\ pc = "read"
    /\ pipe # << >> \/ ff.decoder \in {"closed", "exited"}
    /\ LET b == IF pipe # << >> THEN << Head(pipe) >> ELSE << >>
       IN  IF CopyDone(b, ff.decoder)
           THEN /\ pc' = "next"
                /\ buf' = << >>
                /\ pipe' = pipe
                /\ ff' = [ff EXCEPT !.decoder = "exited"]
                /\ \E j \in Jitters : clock' = Later(clock, PlayLen, j)
           ELSE /\ pc' = "write"
                /\ buf' = b
                /\ pipe' = IF pipe # << >> THEN Tail(pipe) ELSE pipe
                /\ ff' = ff
                /\ clock' = clock
    /\ UNCHANGED << cfg, disk, it, store, gs, call, exc, cause, watcher, todo,
                    dec_log, enc_in, yielded, siglog, pending, exit_status, media, mail, conf >>

\* a write that sends the chunk twice
Written_Twice(e, b) == e \o b \o b

\* what the encoder's stdin has received after write(b)
Written(e, b) == e \o b

\* _ff.encoder.stdin.write(buf)
WriteChunk ==
    /\ pc = "write"
    /\ IF buf # << >> /\ ~Alive(ff.encoder)
       THEN /\ Raise("BrokenPipe")
            /\ ff' \in WithExit(ff, "BrokenPipe")
            /\ enc_in' = enc_in
       ELSE /\ pc' = "read"
            /\ UNCHANGED << exc, cause, media >>
            /\ ff' = ff
            /\ enc_in' = Written(enc_in, buf)
    /\ buf' = << >>
    /\ UNCHANGED << cfg, clock, disk, it, store, gs, call, watcher, todo, pipe,
                    dec_log, yielded, siglog, pending, exit_status, media, mail, conf >>

\* SIGTERM (handle_sigterm raises SystemExit) or ctrl+c, in the try block
Signal ==
    /\ pending = "armed"
    /\ pc \in {"next", "popen", "read", "write"}
    /\ pending' = "fired"
    /\ \E e \in {"SystemExit", "KeyboardInterrupt"} :
         /\ Raise(e)
         /\ IF pc \in {"read", "write"} THEN ff' \in WithExit(ff, e) ELSE ff' = ff
    /\ UNCHANGED << cfg, clock, disk, it, store, gs, call, watcher, todo, pipe,
                    buf, dec_log, enc_in, yielded, siglog, exit_status, media, mail, conf >>

\* the three except clauses of main(): terminate_processes(watcher)
Except ==
    /\ pc = "except"
    /\ siglog' = siglog \o terminate_processes(ff, watcher)
    /\ watcher' = StopWatcher(watcher)
    /\ exc' = ""
    /\ pc' = "close"
    /\ UNCHANGED << cfg, clock, disk, it, store, gs, call, cause, ff, todo, pipe,
                    buf, dec_log, enc_in, yielded, pending, exit_status, media, mail, conf >>

\* "close encoder when nothing is to do anymore"
CloseEncoder ==
    /\ pc = "close"
    /\ siglog' = IF Alive(ff.encoder)
                 THEN Append(siglog, Sig("encoder", ff.encoder)) ELSE siglog
    /\ pc' = "wait"
    /\ UNCHANGED << cfg, clock, disk, it, store, gs, call, exc, cause, ff, watcher, todo,
                    pipe, buf, dec_log, enc_in, yielded, pending, exit_status, media, mail, conf >>

\* finally: _ff.encoder.wait(); then main() returns, or the exception that
\* no except clause caught ends the process
WaitEncoder ==
    /\ pc = "wait"
    /\ ~Alive(ff.encoder)
    /\ pc' = "done"
    /\ exit_status' = IF exc = "" THEN 0 ELSE 1
    /\ UNCHANGED << cfg, clock, disk, it, store, gs, call, exc, cause, ff, watcher,
                    todo, pipe, buf, dec_log, enc_in, yielded, siglog, pending, media, mail, conf >>

\* the decoder writes a chunk to its stdout
DecoderWrite ==
    /\ ff.decoder = "running" /\ todo > 0
    /\ pc \in {"read", "write"}
    /\ LET chunk == << Len(yielded), todo >>
       IN  /\ pipe' = Append(pipe, chunk)
           /\ dec_log' = Append(dec_log, chunk)
    /\ todo' = todo - 1
    /\ UNCHANGED << cfg, clock, disk, it, store, gs, call, pc, exc, cause, ff, watcher,
                    buf, enc_in, yielded, siglog, pending, exit_status, media, mail, conf >>

\* the decoder closes its stdout
DecoderClose ==
    /\ ff.decoder = "running" /\ todo = 0
    /\ ff' = [ff EXCEPT !.decoder = "closed"]
    /\ UNCHANGED << cfg, clock, disk, it, store, gs, call, pc, exc, cause, watcher,
                    todo, pipe, buf, dec_log, enc_in, yielded, siglog, pending,
                    exit_status, media, mail, conf >>

\* the decoder exits: it is done, or it was terminated
DecoderExit ==
    /\ \/ ff.decoder = "closed"
       \/ ff.decoder = "running" /\ todo = 0
       \/ ff.decoder = "running" /\ InSeq(Sig("decoder", "running"), siglog)
    /\ ff' = [ff EXCEPT !.decoder = "exited"]
    /\ todo' = 0
    /\ UNCHANGED << cfg, clock, disk, it, store, gs, call, pc, exc, cause, watcher,
                    pipe, buf, dec_log, enc_in, yielded, siglog, pending,
                    exit_status, media, mail, conf >>

\* the encoder exits: it failed, or it was terminated
EncoderExit ==
    /\ Alive(ff.encoder)
    /\ pc # "done"
    /\ pending # "" \/ InSeq(Sig("encoder", "running"), siglog)
    /\ ff' = [ff EXCEPT !.encoder = "exited"]
    /\ UNCHANGED << cfg, clock, disk, it, store, gs, call, pc, exc, cause, watcher,
                    todo, pipe, buf, dec_log, enc_in, yielded, siglog, pending,
                    exit_status, media, mail, conf >>

\* ------------------------------------------------------------------------
\* the runs that are followed
\* ------------------------------------------------------------------------

Node(src, in, out, dur) ==
    [source |-> src, in |-> in, out |-> out, duration |-> dur]

\* three clips of 4 s
ProgFull ==
    << Node("a.mp4", 0, 4 * Sec, 4 * Sec), Node("b.mp4", 0, 4 * Sec, 4 * Sec),
       Node("c.mp4", 0, 4 * Sec, 4 * Sec) >>

\* 8 s of program
ProgShort ==
    << Node("a.mp4", 0, 4 * Sec, 4 * Sec), Node("b.mp4", 0, 4 * Sec, 4 * Sec) >>

\* 10 s of program
ProgShort2 ==
    << Node("a.mp4", 0, 4 * Sec, 4 * Sec), Node("b.mp4", 0, 4 * Sec, 4 * Sec),
       Node("c.mp4", 0, 2 * Sec, 2 * Sec) >>

\* 8 s of program, the last clip cut at 4 s of its 8 s
ProgCut ==
    << Node("a.mp4", 0, 4 * Sec, 4 * Sec), Node("b.mp4", 0, 4 * Sec, 8 * Sec) >>

\* 12 s of program, the second clip entered at 1 s
ProgIn ==
    << Node("a.mp4", 0, 4 * Sec, 4 * Sec), Node("b.mp4", Sec, 5 * Sec, 6 * Sec),
       Node("c.mp4", 0, 4 * Sec, 4 * Sec) >>

Programs == {ProgFull, ProgShort, ProgShort2, ProgCut, ProgIn}

\* the playlist window of the runs with a playlist length
Window == 12 * Sec

\* playlist mode: looping ignores the drift settings and never fills, and
\* a filler is used only with a playlist length
Configs ==
    { c \in [mode : {"playlist"}, shuffle : {FALSE},
             start : {0, 3 * Sec},
             length : {0, Window, Day},
             stop : BOOLEAN, threshold : {Sec},
             loop : BOOLEAN,
             filler : {"", "filler.mp4"}] :
        /\ c.loop => ~c.stop /\ c.filler = ""
        /\ c.length = 0 => c.filler = "" }

FolderConfigs ==
    [mode : {"folder"}, shuffle : BOOLEAN,
     start : {0}, length : {Day}, stop : {FALSE}, threshold : {Sec},
     loop : {FALSE}, filler : {""}]

\* the wall clock at start, relative to day_start
StartOffsets == {0, 1, 5, 9, 11}

Stores == {<< "a.mp4", "b.mp4" >>}

RECURSIVE Range(_)
\* the elements of a sequence
Range(q) == IF q = << >> THEN {} ELSE {Head(q)} \cup Range(Tail(q))

\* the folder as MediaStore.__init__ has listed it into st, with the
\* watcher's thread at rest
NoMedia(st) ==
    [dir |-> Range(st), fills |-> 1, first |-> st, wpc |-> "idle",
     events |-> 0, dest |-> "", torn |-> FALSE]

\* a messenger that mails nothing, before any call
NoMail ==
    [level |-> "ERROR", recip |-> "", smtp |-> TRUE, last_error |-> "",
     timestamp |-> 0, calls |-> 0, logged |-> << >>, sent |-> << >>]

\* ffplayout.conf: two settings of what load_config reads only once (width,
\* height, aspect in thousandths, fps, out_addr, post_comp_video), each with
\* two settings of the logo and the drift stop and two of the playlist
\* window; day_start 00:00:00 is 0
ConfFiles ==
    { f \in [width : {1024, 1280}, height : {576, 720}, aspect : {1778, 1333},
             fps : {25, 30}, out_addr : {"udp://a", "rtmp://b"},
             post_comp : {"libx264", "mpeg2video"},
             add_logo : BOOLEAN, logo : {"logo.png"},
             day_start : {0, 3 * Sec}, length : {Window, Day},
             stop : BOOLEAN, threshold : {Sec}] :
        /\ f.width = 1024 <=> f.height = 576
        /\ f.width = 1024 <=> f.aspect = 1778
        /\ f.width = 1024 <=> f.fps = 25
        /\ f.width = 1024 <=> f.out_addr = "udp://a"
        /\ f.width = 1024 <=> f.post_comp = "libx264"
        /\ f.stop <=> f.add_logo
        /\ f.length = Day <=> f.day_start = 0 }

\* the file of the runs that do not reload it
DefaultFile ==
    [width |-> 1024, height |-> 576, aspect |-> 1778, fps |-> 25,
     out_addr |-> "udp://a", post_comp |-> "libx264",
     add_logo |-> FALSE, logo |-> "", day_start |-> 0, length |-> Day,
     stop |-> FALSE, threshold |-> Sec]

\* what load_config reads under "if _init.load:", from the file f
Immutable(f) ==
    [w |-> f.width, h |-> f.height, aspect |-> f.aspect, fps |-> f.fps,
     v_bitrate |-> f.width * 50, v_bufsize |-> (f.width * 50) \div 2,
     out_addr |-> f.out_addr, post_comp |-> f.post_comp]

\* _pre_comp and _playout after load_config: the logo settings of the file,
\* and the fields imm
Namespace(f, imm) ==
    [add_logo |-> f.add_logo, logo |-> f.logo,
     w |-> imm.w, h |-> imm.h, aspect |-> imm.aspect, fps |-> imm.fps,
     v_bitrate |-> imm.v_bitrate, v_bufsize |-> imm.v_bufsize,
     out_addr |-> imm.out_addr, post_comp |-> imm.post_comp]

\* load_config with the test "if _init.load:" taken as true
load_config_NoGuard(cf, c, now) ==
    [cfg  |-> [c EXCEPT !.start = IF cf.file.day_start = 0 THEN now
                                  ELSE cf.file.day_start,
                        !.length = cf.file.length,
                        !.stop = cf.file.stop,
                        !.threshold = cf.file.threshold],
     conf |-> [cf EXCEPT !.load = FALSE,
                         !.ns = Namespace(cf.file, Immutable(cf.file))]]

\* load_config() without --start, now is get_time('full_sec'): the
\* namespaces after the call, _playlist and _general in cfg and the others
\* in conf.  cf is [load, file, ns]: _init.load, the file on disk and the
\* namespaces before the call.
load_config(cf, c, now) ==
    [cfg  |-> [c EXCEPT !.start = IF cf.file.day_start = 0 THEN now
                                  ELSE cf.file.day_start,
                        !.length = cf.file.length,
                        !.stop = cf.file.stop,
                        !.threshold = cf.file.threshold],
     conf |-> [cf EXCEPT !.load = FALSE,
                         !.ns = Namespace(cf.file,
                                          IF cf.load THEN Immutable(cf.file)
                                                     ELSE cf.ns)]]

\* the configuration once load_config has run at import
NoConf ==
    [load |-> FALSE, file |-> DefaultFile,
     ns |-> Namespace(DefaultFile, Immutable(DefaultFile))]

InitCommon ==
    /\ call = NoCall
    /\ pc = "next"
    /\ exc = ""
    /\ cause = ""
    /\ ff = [decoder |-> "none", encoder |-> "running"]
    /\ todo = 0
    /\ pipe = << >>
    /\ buf = << >>
    /\ dec_log = << >>
    /\ enc_in = << >>
    /\ yielded = << >>
    /\ siglog = << >>
    /\ exit_status = -1
    /\ media = NoMedia(store)
    /\ mail = NoMail
    /\ conf = NoConf

InitPlaylist ==
    /\ cfg \in Configs
    /\ \E o \in StartOffsets :
         clock = [now |-> cfg.start + o, today |-> 1, jumps |-> 0,
                  t0 |-> cfg.start + o]
    /\ disk \in [state : {"ok"}, mtime : {1}, program : Programs]
    /\ it = NewIter(cfg, clock)
    /\ store = << >>
    /\ gs = NewSource
    /\ watcher = "none"
    /\ pending = IF clock.now = cfg.start THEN "armed" ELSE ""
    /\ InitCommon

InitFolder ==
    /\ cfg \in FolderConfigs
    /\ clock = [now |-> 0, today |-> 1, jumps |-> 0, t0 |-> 0]
    /\ disk = [state |-> "absent", mtime |-> 0, program |-> << >>]
    /\ it = NewIter(cfg, clock)
    /\ store \in Stores
    /\ gs = NewSource
    /\ watcher = "running"
    /\ pending = "armed"
    /\ InitCommon

Init == InitPlaylist \/ InitFolder

Next ==
    \/ NextPlaylist
    \/ NextFolder
    \/ SpawnDecoder
    \/ ReadChunk
    \/ WriteChunk
    \/ Signal
    \/ Except
    \/ CloseEncoder
    \/ WaitEncoder
    \/ DecoderWrite
    \/ DecoderClose
    \/ DecoderExit
    \/ EncoderExit

Spec == Init /\ [][Next]_vars

\* ------------------------------------------------------------------------
\* the iterators on their own: main() asks for a vector and plays it, while
\* the playlist file may be rewritten or removed
\* ------------------------------------------------------------------------

\* a.mp4 and c.mp4 with an entry between them whose file does not exist
ProgGone ==
    << Node("a.mp4", 0, 4 * Sec, 4 * Sec), Node(MissingSrc, 0, 4 * Sec, 4 * Sec),
       Node("c.mp4", 0, 4 * Sec, 4 * Sec) >>

\* the last entry's file does not exist; it is 2 s long and is scheduled
\* between 1 s and 3 s before the end of the window
ProgGoneLast ==
    << Node("a.mp4", 0, 4 * Sec, 4 * Sec),
       Node("b.mp4", 0, 5 * Sec + Sec \div 2, 5 * Sec + Sec \div 2),
       Node(MissingSrc, 0, 2 * Sec, 2 * Sec) >>

\* an entry that ffprobe cannot read
ProgBad ==
    << Node("a.mp4", 0, 4 * Sec, 4 * Sec), Node(BadSrc, 0, 4 * Sec, 4 * Sec),
       Node("c.mp4", 0, 4 * Sec, 4 * Sec) >>

\* an entry without audio
ProgMute ==
    << Node(MuteSrc, 0, 4 * Sec, 4 * Sec), Node("a.mp4", 0, 4 * Sec, 4 * Sec) >>

\* two clips of 30 s
ProgThirty ==
    << Node("a.mp4", 0, 30 * Sec, 30 * Sec), Node("b.mp4", 0, 30 * Sec, 30 * Sec) >>

\* a node with the key "category"
AdNode(src, category) ==
    [source |-> src, in |-> 0, out |-> 4 * Sec, duration |-> 4 * Sec,
     category |-> category]

\* a clip between two advertisements
ProgAds ==
    << AdNode("a.mp4", "advertisement"), AdNode("b.mp4", "noad"),
       AdNode("c.mp4", "advertisement") >>

\* an advertisement and two clips
ProgAdFirst ==
    << AdNode("a.mp4", "advertisement"), AdNode("b.mp4", "noad"),
       AdNode("c.mp4", "noad") >>

\* a node without a category before nodes with one
ProgMixed ==
    << Node("a.mp4", 0, 4 * Sec, 4 * Sec), AdNode("b.mp4", "advertisement"),
       AdNode("c.mp4", "noad") >>

\* a playlist whose "program" is the empty list
ProgEmpty == << >>

\* a second entry whose out is its in
ProgZero ==
    << Node("a.mp4", 0, 4 * Sec, 4 * Sec), Node("b.mp4", Sec, Sec, 4 * Sec),
       Node("c.mp4", 0, 4 * Sec, 4 * Sec) >>

IterPrograms ==
    {ProgFull, ProgIn, ProgGone, ProgGoneLast, ProgBad, ProgMute, ProgThirty,
     ProgAds, ProgAdFirst, ProgMixed, ProgEmpty, ProgZero}

\* _pre_comp.add_logo and _pre_comp.logo: no logo, a logo, and a logo whose
\* file is missing
LogoConfs ==
    { [NoConf EXCEPT !.ns.add_logo = FALSE, !.ns.logo = "logo.png"],
      [NoConf EXCEPT !.ns.add_logo = TRUE, !.ns.logo = "logo.png"],
      [NoConf EXCEPT !.ns.add_logo = TRUE, !.ns.logo = "gone.png"] }

IterConfigs ==
    { c \in [mode : {"playlist"}, shuffle : {FALSE},
             start : {0, 3 * Sec},
             length : {0, Window, Day, Day + Window},
             stop : {FALSE}, threshold : {Sec},
             loop : BOOLEAN,
             filler : {"", "filler.mp4"}] :
        /\ c.loop => c.filler = "" /\ c.length \in {0, Window}
        /\ c.length = 0 => c.filler = "" }

\* the wall clock at start, relative to day_start
IterOffsets == {0, 5 * Sec, 12 * Sec}

\* the order in which sorted() puts the paths
PathOrder == << "a.mp4", "b.mp4", "bad.mp4", "c.mp4", "d.mp4" >>

Rank(path) == CHOOSE i \in 1..Len(PathOrder) : PathOrder[i] = path

\* sorted(q), by insertion
RECURSIVE Insert(_, _)
Insert(x, q) ==
    IF q = << >> THEN << x >>
    ELSE IF Rank(x) <= Rank(Head(q)) THEN << x >> \o q
    ELSE << Head(q) >> \o Insert(x, Tail(q))

RECURSIVE sorted(_)
sorted(q) == IF q = << >> THEN << >> ELSE Insert(Head(q), sorted(Tail(q)))

\* list.remove(x) for an x that is in the list
RECURSIVE ListRemove(_, _)
ListRemove(q, x) ==
    IF q = << >> THEN << >>
    ELSE IF Head(q) = x THEN Tail(q)
    ELSE << Head(q) >> \o ListRemove(Tail(q), x)

\* stores as MediaStore.fill leaves them
IterStores ==
    { << "a.mp4", "b.mp4" >>, << "a.mp4", "b.mp4", "c.mp4" >>,
      << "a.mp4", "b.mp4", "c.mp4", "d.mp4" >>, << "a.mp4", "bad.mp4", "c.mp4" >> }

InitIterCommon ==
    /\ call = NoCall
    /\ pc = "next"
    /\ exc = ""
    /\ cause = ""
    /\ ff = [decoder |-> "none", encoder |-> "running"]
    /\ todo = 0
    /\ pipe = << >>
    /\ buf = << >>
    /\ dec_log = << >>
    /\ enc_in = << >>
    /\ yielded = << >>
    /\ siglog = << >>
    /\ pending = ""
    /\ exit_status = -1
    /\ media = NoMedia(store)
    /\ mail = NoMail

InitIterPlaylist ==
    /\ cfg \in IterConfigs
    /\ \E o \in IterOffsets :
         clock = [now |-> cfg.start + o, today |-> 1, jumps |-> 0,
                  t0 |-> cfg.start + o]
    /\ \/ disk \in [state : {"ok"}, mtime : {1}, program : IterPrograms]
       \/ disk \in [state : {"absent", "invalid"}, mtime : {1}, program : {<< >>}]
    /\ it = NewIter(cfg, clock)
    /\ store = << >>
    /\ gs = NewSource
    /\ watcher = "none"
    /\ conf \in LogoConfs
    /\ InitIterCommon

InitIterFolder ==
    /\ cfg \in FolderConfigs
    /\ clock = [now |-> 0, today |-> 1, jumps |-> 0, t0 |-> 0]
    /\ disk = [state |-> "absent", mtime |-> 0, program |-> << >>]
    /\ it = NewIter(cfg, clock)
    /\ store \in IterStores
    /\ gs = NewSource
    /\ watcher = "running"
    /\ conf = NoConf
    /\ InitIterCommon

InitIter == InitIterPlaylist \/ InitIterFolder

\* the pump plays the vector just yielded, and the clip's time passes
PlayClip ==
    /\ pc = "popen"
    /\ pc' = "next"
    /\ clock' = Later(clock, PlayLen, 0)
    /\ UNCHANGED << cfg, disk, it, store, gs, call, exc, cause, ff, watcher, todo,
                    pipe, buf, dec_log, enc_in, yielded, siglog, pending,
                    exit_status, media, mail, conf >>

\* between two rounds the playlist file is removed, or rewritten with a
\* program or with text that is not JSON
DiskChange ==
    /\ pc = "next" /\ cfg.mode = "playlist"
    /\ disk.mtime <= MaxEdits
    /\ \/ disk' = [state |-> "absent", mtime |-> disk.mtime + 1, program |-> << >>]
       \/ disk' = [state |-> "invalid", mtime |-> disk.mtime + 1, program |-> << >>]
       \/ disk' = [state |-> "ok", mtime |-> disk.mtime + 1, program |-> ProgFull]
    /\ UNCHANGED << cfg, clock, it, store, gs, call, pc, exc, cause, ff, watcher,
                    todo, pipe, buf, dec_log, enc_in, yielded, siglog, pending,
                    exit_status, media, mail, conf >>

NextIter ==
    \/ NextPlaylist
    \/ NextFolder
    \/ PlayClip
    \/ DiskChange

SpecIter == InitIter /\ [][NextIter]_vars

\* ------------------------------------------------------------------------
\* the folder source in sorted mode and the watcher's thread, statement by
\* statement: nothing in MediaStore, MediaWatcher or GetSource takes a lock
\* ------------------------------------------------------------------------

WatchPaths == {"a.mp4", "b.mp4", "c.mp4", "d.mp4"}

WatchStores ==
    { << "b.mp4" >>, << "a.mp4", "c.mp4" >>, << "a.mp4", "b.mp4", "c.mp4" >> }

InitWatch ==
    /\ cfg \in {c \in FolderConfigs : ~c.shuffle}
    /\ clock = [now |-> 0, today |-> 1, jumps |-> 0, t0 |-> 0]
    /\ disk = [state |-> "absent", mtime |-> 0, program |-> << >>]
    /\ it = NewIter(cfg, clock)
    /\ store \in WatchStores
    /\ gs = NewSource
    /\ watcher = "running"
    /\ conf = NoConf
    /\ InitIterCommon

\* the folder source reads self._media.store
ReadStore == media' = [media EXCEPT !.torn = @ \/ media.wpc # "idle"]

\* "self.index += 1" after a yield, then "while self.index < len(store)" and
\* its else clause
TestIndex ==
    /\ pc = "next" /\ cfg.mode = "folder" /\ ~cfg.shuffle
    /\ Len(yielded) < MaxEmit
    /\ LET index == IF gs.at_yield THEN gs.index + 1 ELSE gs.index
       IN  IF index < Len(store)
           THEN /\ gs' = [gs EXCEPT !.index = index, !.at_yield = FALSE]
                /\ pc' = "probe"
           ELSE /\ gs' = [gs EXCEPT !.index = 0, !.at_yield = FALSE]
                /\ pc' = "next"
    /\ ReadStore
    /\ UNCHANGED << cfg, clock, disk, it, store, call, exc, cause, ff, watcher,
                    todo, pipe, buf, dec_log, enc_in, yielded, siglog, pending,
                    exit_status, mail, conf >>

\* "self.probe.load(self._media.store[self.index])"
ProbeClip ==
    /\ pc = "probe"
    /\ IF gs.index < Len(store)
       THEN /\ gs' = [gs EXCEPT !.probe = store[gs.index + 1]]
            /\ pc' = "yield"
            /\ UNCHANGED << exc, cause >>
       ELSE /\ exc' = "IndexError"
            /\ cause' = exc'
            /\ pc' = "wait"
            /\ gs' = gs
    /\ ReadStore
    /\ UNCHANGED << cfg, clock, disk, it, store, call, ff, watcher, todo, pipe,
                    buf, dec_log, enc_in, yielded, siglog, pending, exit_status, mail, conf >>

\* "yield ['-i', self._media.store[self.index]] + filtergraph"
YieldClip ==
    /\ pc = "yield"
    /\ IF gs.index < Len(store)
       THEN /\ yielded' = Append(yielded,
                                 << T("-i"), T(store[gs.index + 1]) >>
                                 \o build_filtergraph(FALSE, gs.probe))
            /\ gs' = [gs EXCEPT !.at_yield = TRUE]
            /\ pc' = "popen"
            /\ UNCHANGED << exc, cause >>
       ELSE /\ exc' = "IndexError"
            /\ cause' = exc'
            /\ pc' = "wait"
            /\ UNCHANGED << gs, yielded >>
    /\ ReadStore
    /\ UNCHANGED << cfg, clock, disk, it, store, call, ff, watcher, todo, pipe,
                    buf, dec_log, enc_in, siglog, pending, exit_status, mail, conf >>

\* the watcher's thread has taken an event and changed the list; the sort
\* is still to come
Event(dir, st, wpc, dest) ==
    /\ media' = [media EXCEPT !.dir = dir, !.wpc = wpc, !.dest = dest,
                              !.events = @ + 1]
    /\ store' = st
    /\ UNCHANGED << cfg, clock, disk, it, gs, call, pc, exc, cause, ff, watcher,
                    todo, pipe, buf, dec_log, enc_in, yielded, siglog, pending,
                    exit_status, mail, conf >>

\* MediaWatcher.on_created up to the append of MediaStore.add
on_created ==
    /\ watcher = "running" /\ media.wpc = "idle" /\ media.events < MaxEvents
    /\ \E path \in WatchPaths \ media.dir :
         Event(media.dir \cup {path}, Append(store, path), "sort", "")

\* MediaWatcher.on_deleted up to the remove of MediaStore.remove
on_deleted ==
    /\ watcher = "running" /\ media.wpc = "idle" /\ media.events < MaxEvents
    /\ \E path \in media.dir :
         Event(media.dir \ {path}, ListRemove(store, path), "sort", "")

\* MediaWatcher.on_moved up to the remove of MediaStore.remove
on_moved ==
    /\ watcher = "running" /\ media.wpc = "idle" /\ media.events < MaxEvents
    /\ \E path \in media.dir :
         \E dest \in WatchPaths \ media.dir :
            Event((media.dir \ {path}) \cup {dest}, ListRemove(store, path),
                  "sort_add", dest)

\* MediaStore.sort, as the last statement of add or of remove; after the
\* remove of on_moved the add of the new path follows
MediaSort ==
    /\ media.wpc \in {"sort", "sort_add"}
    /\ store' = sorted(store)
    /\ media' = [media EXCEPT !.wpc = IF @ = "sort_add" THEN "add" ELSE "idle"]
    /\ UNCHANGED << cfg, clock, disk, it, gs, call, pc, exc, cause, ff, watcher,
                    todo, pipe, buf, dec_log, enc_in, yielded, siglog, pending,
                    exit_status, mail, conf >>

\* the append of MediaStore.add in on_moved
MovedAdd ==
    /\ media.wpc = "add"
    /\ store' = Append(store, media.dest)
    /\ media' = [media EXCEPT !.wpc = "sort", !.dest = ""]
    /\ UNCHANGED << cfg, clock, disk, it, gs, call, pc, exc, cause, ff, watcher,
                    todo, pipe, buf, dec_log, enc_in, yielded, siglog, pending,
                    exit_status, mail, conf >>

NextWatch ==
    \/ TestIndex
    \/ ProbeClip
    \/ YieldClip
    \/ PlayClip
    \/ on_created
    \/ on_deleted
    \/ on_moved
    \/ MediaSort
    \/ MovedAdd

SpecWatch == InitWatch /\ [][NextWatch]_vars

\* ------------------------------------------------------------------------
\* MediaStore on its own: fill, add and remove are called, each as a whole
\* ------------------------------------------------------------------------

\* what glob.glob may return for a folder that holds the paths in dir: the
\* paths in any order
Listings(dir) ==
    { q \in [1..Cardinality(dir) -> dir] :
        \A i, j \in 1..Cardinality(dir) : i # j => q[i] # q[j] }

\* MediaStore.__init__ has run fill() on the empty list
InitStore ==
    /\ cfg \in FolderConfigs
    /\ clock = [now |-> 0, today |-> 1, jumps |-> 0, t0 |-> 0]
    /\ disk = [state |-> "absent", mtime |-> 0, program |-> << >>]
    /\ it = NewIter(cfg, clock)
    /\ \E dir \in SUBSET WatchPaths :
         \E listing \in Listings(dir) : store = sorted(listing)
    /\ gs = NewSource
    /\ watcher = "running"
    /\ conf = NoConf
    /\ InitIterCommon

\* MediaStore.fill
fill ==
    /\ media.fills < MaxFills
    /\ \E listing \in Listings(media.dir) :
         store' = sorted(store \o listing)
    /\ media' = [media EXCEPT !.fills = @ + 1]
    /\ UNCHANGED << cfg, clock, disk, it, gs, call, pc, exc, cause, ff, watcher,
                    todo, pipe, buf, dec_log, enc_in, yielded, siglog, pending,
                    exit_status, mail, conf >>

\* MediaStore.add, for a file that has appeared in the folder
add ==
    /\ media.events < MaxEvents
    /\ \E file \in WatchPaths \ media.dir :
         /\ store' = sorted(Append(store, file))
         /\ media' = [media EXCEPT !.dir = @ \cup {file}, !.events = @ + 1]
    /\ UNCHANGED << cfg, clock, disk, it, gs, call, pc, exc, cause, ff, watcher,
                    todo, pipe, buf, dec_log, enc_in, yielded, siglog, pending,
                    exit_status, mail, conf >>

\* MediaStore.remove, for a file that has gone from the folder
remove ==
    /\ media.events < MaxEvents
    /\ \E file \in media.dir :
         /\ store' = sorted(ListRemove(store, file))
         /\ media' = [media EXCEPT !.dir = @ \ {file}, !.events = @ + 1]
    /\ UNCHANGED << cfg, clock, disk, it, gs, call, pc, exc, cause, ff, watcher,
                    todo, pipe, buf, dec_log, enc_in, yielded, siglog, pending,
                    exit_status, mail, conf >>

\* MediaStore.remove for any path: list.remove raises ValueError when the
\* list does not hold the path, and the sort is not reached
MediaStore_remove(st, file) ==
    IF InSeq(file, st)
    THEN [store |-> sorted(ListRemove(st, file)), exc |-> ""]
    ELSE [store |-> st, exc |-> "ValueError"]

\* MediaWatcher.on_deleted as a whole, for the event's src_path: a path of the
\* store, or one the store never held (a file that appeared between fill()
\* and observer.start())
MediaWatcher_on_deleted(path) ==
    /\ media.events < MaxEvents /\ exc = ""
    /\ store' = MediaStore_remove(store, path).store
    /\ exc' = MediaStore_remove(store, path).exc
    /\ media' = [media EXCEPT !.dir = @ \ {path}, !.events = @ + 1]
    /\ UNCHANGED << cfg, clock, disk, it, gs, call, pc, cause, ff, watcher,
                    todo, pipe, buf, dec_log, enc_in, yielded, siglog, pending,
                    exit_status, mail, conf >>

\* MediaWatcher.on_moved as a whole: remove(src_path), then add(dest_path)
\* when the remove has returned
MediaWatcher_on_moved(path, dest) ==
    /\ media.events < MaxEvents /\ exc = ""
    /\ store' = IF MediaStore_remove(store, path).exc = ""
                THEN sorted(Append(MediaStore_remove(store, path).store, dest))
                ELSE store
    /\ exc' = MediaStore_remove(store, path).exc
    /\ media' = [media EXCEPT !.dir = (@ \ {path}) \cup {dest},
                              !.events = @ + 1]
    /\ UNCHANGED << cfg, clock, disk, it, gs, call, pc, cause, ff, watcher,
                    todo, pipe, buf, dec_log, enc_in, yielded, siglog, pending,
                    exit_status, mail, conf >>

DeleteEvent == \E path \in WatchPaths : MediaWatcher_on_deleted(path)

MoveEvent ==
    \E path \in WatchPaths :
       \E dest \in WatchPaths \ {path} : MediaWatcher_on_moved(path, dest)

NextStore ==
    \/ fill
    \/ add
    \/ remove
    \/ DeleteEvent
    \/ MoveEvent

SpecStore == InitStore /\ [][NextStore]_vars

\* ------------------------------------------------------------------------
\* the messages of eof_handling: the calls are drawn, and time passes
\* between them
\* ------------------------------------------------------------------------

\* get_time('stamp'), in ticks
Stamp(clk) == clk.today * Day + clk.now

\* Mailer.send_mail(msg) at the time stamp
send_mail(m, msg, stamp) ==
    IF m.recip # "" /\ m.smtp
    THEN [m EXCEPT !.sent = Append(@, [msg |-> msg, stamp |-> stamp])]
    ELSE m

\* Messenger.error(msg): logger.error, then Mailer.error
Messenger_error(m, msg, stamp) ==
    LET logged == [m EXCEPT !.logged = Append(@, [msg |-> msg, stamp |-> stamp])]
    IN  IF m.level \in {"INFO", "WARNING", "ERROR"}
        THEN send_mail(logged, msg, stamp)
        ELSE logged

\* GetSourceIter.eof_handling from "if get_time('stamp') - self.timestamp"
\* on; a message is the text and what separates it from the file's name
eof_message(m, message, stamp) ==
    LET m1 == IF stamp - m.timestamp > MailEvery * Sec /\ message # m.last_error
              THEN [Messenger_error([m EXCEPT !.last_error = message],
                                    [text |-> message, sep |-> "\n"], stamp)
                      EXCEPT !.timestamp = stamp]
              ELSE m
    IN  [Messenger_error(m1, [text |-> message, sep |-> " "], stamp)
           EXCEPT !.calls = @ + 1]

\* the calls of eof_handling the iterator makes: [message, filler]
EofCalls ==
    { [message |-> "Get playlist from url failed!", filler |-> FALSE],
      [message |-> "Playlist not exist:", filler |-> FALSE],
      [message |-> "Playlist is empty!", filler |-> FALSE],
      [message |-> "Playlist is not long enough!", filler |-> TRUE] }

\* how long the iterator may go on between two calls
Waits == {Sec, 1800 * Sec, 3601 * Sec}

InitMail ==
    /\ cfg \in {c \in IterConfigs : c.length = Window /\ c.start = 0}
    /\ clock = [now |-> 0, today |-> 1, jumps |-> 0, t0 |-> 0]
    /\ disk = [state |-> "absent", mtime |-> 0, program |-> << >>]
    /\ it = NewIter(cfg, clock)
    /\ store = << >>
    /\ gs = NewSource
    /\ watcher = "none"
    /\ call = NoCall
    /\ pc = "next"
    /\ exc = ""
    /\ cause = ""
    /\ ff = [decoder |-> "none", encoder |-> "running"]
    /\ todo = 0
    /\ pipe = << >>
    /\ buf = << >>
    /\ dec_log = << >>
    /\ enc_in = << >>
    /\ yielded = << >>
    /\ siglog = << >>
    /\ pending = ""
    /\ exit_status = -1
    /\ media = NoMedia(store)
    /\ conf = NoConf
    /\ \E level \in {"INFO", "WARNING", "ERROR", "CRITICAL"}, recip \in {"", "ops"},
          smtp \in BOOLEAN :
         mail = [NoMail EXCEPT !.level = level, !.recip = recip, !.smtp = smtp,
                               !.timestamp = Stamp(clock)]

\* GetSourceIter.eof_handling(message, filler)
EofHandling ==
    /\ mail.calls < MaxCalls
    /\ \E c \in EofCalls :
         /\ it' = eof_handling(it, cfg, clock, c.filler)
         /\ mail' = eof_message(mail, c.message, Stamp(clock))
    /\ UNCHANGED << cfg, clock, disk, store, gs, call, pc, exc, cause, ff, watcher,
                    todo, pipe, buf, dec_log, enc_in, yielded, siglog, pending,
                    exit_status, media, conf >>

\* time passes
Wait ==
    /\ clock.jumps < MaxCalls
    /\ \E d \in Waits : clock' = Later(clock, 0, d)
    /\ UNCHANGED << cfg, disk, it, store, gs, call, pc, exc, cause, ff, watcher,
                    todo, pipe, buf, dec_log, enc_in, yielded, siglog, pending,
                    exit_status, media, mail, conf >>

NextMail ==
    \/ EofHandling
    \/ Wait

SpecMail == InitMail /\ [][NextMail]_vars

\* ------------------------------------------------------------------------
\* the configuration file and SIGHUP
\* ------------------------------------------------------------------------

\* Messenger.info(msg): logger.info, then Mailer.info
Messenger_info(m, msg, stamp) ==
    LET logged == [m EXCEPT !.logged = Append(@, [msg |-> msg, stamp |-> stamp])]
    IN  IF m.level \in {"INFO"}
        THEN send_mail(logged, msg, stamp)
        ELSE logged

\* playlist mode without --loop and without a filler, before load_config
\* has set the fields it reads from the file
BlankConfig ==
    [mode |-> "playlist", shuffle |-> FALSE, start |-> 0, length |-> 0,
     stop |-> FALSE, threshold |-> Sec, loop |-> FALSE, filler |-> ""]

\* the state after the import: load_config has run once, on some file
InitConfig ==
    /\ clock = [now |-> 0, today |-> 1, jumps |-> 0, t0 |-> 0]
    /\ \E f \in ConfFiles :
         LET r == load_config([load |-> TRUE, file |-> f, ns |-> NoConf.ns],
                              BlankConfig, clock.now)
         IN  cfg = r.cfg /\ conf = r.conf
    /\ disk = [state |-> "absent", mtime |-> 0, program |-> << >>]
    /\ it = NewIter(cfg, clock)
    /\ store = << >>
    /\ gs = NewSource
    /\ watcher = "none"
    /\ call = NoCall
    /\ pc = "next"
    /\ exc = ""
    /\ cause = ""
    /\ ff = [decoder |-> "none", encoder |-> "running"]
    /\ todo = 0
    /\ pipe = << >>
    /\ buf = << >>
    /\ dec_log = << >>
    /\ enc_in = << >>
    /\ yielded = << >>
    /\ siglog = << >>
    /\ pending = ""
    /\ exit_status = -1
    /\ media = NoMedia(store)
    /\ mail = [NoMail EXCEPT !.timestamp = Stamp(clock)]

\* handle_sighub(sig, frame)
HandleSighub ==
    /\ Len(mail.logged) < MaxCalls
    /\ mail' = Messenger_info(mail, [text |-> "Reload config file", sep |-> ""],
                              Stamp(clock))
    /\ cfg' = load_config(conf, cfg, clock.now).cfg
    /\ conf' = load_config(conf, cfg, clock.now).conf
    /\ UNCHANGED << clock, disk, it, store, gs, call, pc, exc, cause, ff, watcher,
                    todo, pipe, buf, dec_log, enc_in, yielded, siglog, pending,
                    exit_status, media >>

\* the file is rewritten
EditConfig ==
    /\ \E f \in ConfFiles \ {conf.file} : conf' = [conf EXCEPT !.file = f]
    /\ UNCHANGED << cfg, clock, disk, it, store, gs, call, pc, exc, cause, ff,
                    watcher, todo, pipe, buf, dec_log, enc_in, yielded, siglog,
                    pending, exit_status, media, mail >>

NextConfig ==
    \/ HandleSighub
    \/ EditConfig
    \/ Wait

SpecConfig == InitConfig /\ [][NextConfig]_vars

\* ------------------------------------------------------------------------
\* the input builder on its own: the arguments of a call are drawn, and the
\* call is made
\* ------------------------------------------------------------------------

\* everything but the configuration, the clock and the arguments
InitIdle ==
    /\ disk = [state |-> "absent", mtime |-> 0, program |-> << >>]
    /\ store = << >>
    /\ gs = NewSource
    /\ watcher = "none"
    /\ pending = ""
    /\ exc = ""
    /\ cause = ""
    /\ ff = [decoder |-> "none", encoder |-> "running"]
    /\ todo = 0
    /\ pipe = << >>
    /\ buf = << >>
    /\ dec_log = << >>
    /\ enc_in = << >>
    /\ yielded = << >>
    /\ siglog = << >>
    /\ exit_status = -1
    /\ media = NoMedia(store)
    /\ mail = NoMail
    /\ conf = NoConf

\* a playlist window of MaxT ticks that starts at tick 1
SmallConfig ==
    [mode |-> "playlist", shuffle |-> FALSE, start |-> 1, length |-> MaxT,
     stop |-> FALSE, threshold |-> Sec, loop |-> FALSE, filler |-> ""]

\* a window of one hour that starts at 06:00
HourConfig(stop) ==
    [mode |-> "playlist", shuffle |-> FALSE, start |-> 21600 * Sec,
     length |-> 3600 * Sec, stop |-> stop, threshold |-> Sec, loop |-> FALSE,
     filler |-> ""]

\* the object with the fields that timed_source is called with
Args(c, clk, src, begin, dur, seek, out, first, last) ==
    [NewIter(c, clk) EXCEPT !.src = src, !.begin = begin, !.duration = dur,
                            !.seek = seek, !.out = out, !.first = first,
                            !.last = last]

\* the arguments of handle_list_end, from small numbers (a duration of 0
\* makes loop_input divide by zero)
InitListEnd ==
    /\ cfg = SmallConfig
    /\ clock = [now |-> 0, today |-> 1, jumps |-> 0, t0 |-> 0]
    /\ \E begin \in 0..MaxT, dur \in 1..(2 * MaxT), seek \in 0..MaxT, out \in 0..MaxT :
         it = Args(cfg, clock, "a.mp4", begin, dur, seek, out, FALSE, FALSE)
    /\ \E d \in -Sec..Sec : call = [NoCall EXCEPT !.time_delta = d]
    /\ pc = "args_list_end"
    /\ InitIdle

\* the arguments of timed_source and the wall clock, from small numbers
InitTimed ==
    /\ cfg = SmallConfig
    /\ \E now \in 0..MaxT : clock = [now |-> now, today |-> 1, jumps |-> 0, t0 |-> now]
    /\ \E begin \in 0..MaxT, dur \in 1..MaxT, seek \in 0..Sec, out \in 0..MaxT,
          first \in BOOLEAN, last \in BOOLEAN :
         it = Args(cfg, clock, "a.mp4", begin, dur, seek, out, first, last)
    /\ call = NoCall
    /\ pc = "args_timed"
    /\ InitIdle

\* a clip of 60 s scheduled at 06:59:40, prepared on time or 15 s late
InitHour ==
    /\ \E stop \in BOOLEAN : cfg = HourConfig(stop)
    /\ \E late \in {0, 15 * Sec} :
         clock = [now |-> 25180 * Sec + late, today |-> 1, jumps |-> 0,
                  t0 |-> 25180 * Sec + late]
    /\ it = Args(cfg, clock, "a.mp4", 25180 * Sec, 60 * Sec, 0, 60 * Sec, FALSE, FALSE)
    /\ call = NoCall
    /\ pc = "args_timed"
    /\ InitIdle

InitBuilder == InitListEnd \/ InitTimed \/ InitHour

\* ref_time of timed_source
RefTime == TargetPlaytime(cfg) + cfg.start

\* a call of handle_list_end
ListEnd ==
    /\ pc = "args_list_end"
    /\ call' = [call EXCEPT
                  !.made = TRUE,
                  !.res = handle_list_end(call.time_delta, RefTime, it.src,
                                          it.begin, it.duration, it.seek, it.out)]
    /\ pc' = "list_end"
    /\ UNCHANGED << cfg, clock, disk, it, store, gs, exc, cause, ff, watcher, todo,
                    pipe, buf, dec_log, enc_in, yielded, siglog, pending,
                    exit_status, media, mail, conf >>

\* a call of timed_source, made by get_input
TimedInput ==
    /\ pc = "args_timed"
    /\ call' = get_input(it, cfg, clock)
    /\ pc' = "timed"
    /\ UNCHANGED << cfg, clock, disk, it, store, gs, exc, cause, ff, watcher, todo,
                    pipe, buf, dec_log, enc_in, yielded, siglog, pending,
                    exit_status, media, mail, conf >>

NextBuilder ==
    \/ ListEnd
    \/ TimedInput

SpecBuilder == InitBuilder /\ [][NextBuilder]_vars

\* ------------------------------------------------------------------------
\* the pump's ordering and the bytes it copies
\* ------------------------------------------------------------------------

\* the last decoder has exited and its stdout has been read to its end
Drained == ~Alive(ff.decoder) /\ pipe = << >> /\ todo = 0

\* C1: in the pump loop the iterator is asked for the next argument vector
\* only when the decoder of the previous clip has exited and its stdout has
\* been read to EOF, and a decoder is spawned only after the iterator has
\* yielded, at a moment when no other decoder is alive.
C1_DrainThenNextThenSpawn ==
    [][ /\ (pc = "next" => Drained)
        /\ (yielded' # yielded => Drained /\ pc' = "popen")
        /\ (ff'.decoder = "running" /\ ff.decoder # "running"
              => pc = "popen" /\ Drained) ]_vars

C1_Witness == Len(yielded) = 2 /\ pc = "read" /\ ff.decoder = "running"

IsPrefix(a, b) == Len(a) <= Len(b) /\ SubSeq(b, 1, Len(a)) = a

LoopLeft == pc \in {"except", "close", "wait", "done"}

\* C3: when get_delta finds a non-first clip out of tolerance (stop_on_error,
\* no --loop) and ends in sys.exit(1), no further argument vector is emitted
\* (the pump loop is left) and the process ends with exit status 1.
C3_DriftExitsWithOne ==
    cause = "SystemExit(1)"
    => /\ LoopLeft
       /\ pc = "done" => exit_status = 1

\* C4: when the write to the encoder's stdin raises a broken pipe, the pump
\* loop is left, decoder and encoder are ended and the watcher is stopped,
\* and the process ends with a non-zero exit status.
C4_BrokenPipeExitsNonZero ==
    cause = "BrokenPipe"
    => /\ LoopLeft
       /\ pc \in {"close", "wait", "done"}
            => ~Alive(ff.decoder) /\ watcher # "running"
       /\ pc = "done" => ~Alive(ff.encoder) /\ exit_status # 0

\* playlist mode, no --loop, no playlist length
NoLength == cfg.mode = "playlist" /\ ~cfg.loop /\ cfg.length = 0

\* the for loop of GetSourceIter.next would run past the last entry
PastLast == it.loaded /\ Walk([it EXCEPT !.begin = it.init_time], 1).sel = 0

\* C5: in playlist mode without --loop and with no playlist length, the round
\* of the iterator that walks past the last entry ends the iterator without
\* another vector, main() then terminates the encoder if it still runs, and
\* the process ends with exit status 0.
C5_EndOfPlaylistExitsZero ==
    [][ /\ (NoLength /\ pc = "next" /\ PastLast /\ pc' # "next" /\ pending' = pending
              => pc' = "close" /\ yielded' = yielded)
        /\ (NoLength /\ pc = "close" /\ pc' # "close" /\ Alive(ff.encoder)
              => siglog' = Append(siglog, [to |-> "encoder", alive |-> TRUE]))
        /\ (NoLength /\ cause' = "" /\ pc' = "done"
              => ~Alive(ff'.encoder) /\ exit_status' = 0) ]_vars

C5_Witness ==
    /\ NoLength /\ cause = "" /\ pc = "done" /\ exit_status = 0
    /\ Len(yielded) = 3 /\ PastLast
    /\ siglog = << [to |-> "encoder", alive |-> TRUE] >>

\* the calls a shutdown has to make, in order, for the children as they are
InOrder(f, w) ==
    (IF Alive(f.decoder) THEN << [to |-> "decoder", alive |-> TRUE] >> ELSE << >>)
    \o (IF Alive(f.encoder) THEN << [to |-> "encoder", alive |-> TRUE] >> ELSE << >>)
    \o (IF w # "none" THEN << [to |-> "watcher", alive |-> (w = "running")] >>
                      ELSE << >>)

\* C6: on every termination path the except clause signals the decoder, then
\* the encoder, then stops (and joins) the watcher, each child only if its
\* poll() reports no exit status; fatal drift makes the same calls, without
\* the watcher, before it raises; and no terminate() is ever sent to a child
\* that has exited.
C6_ShutdownInOrder ==
    [][ /\ (pc = "except" /\ pc' # "except"
              => /\ siglog' = siglog \o InOrder(ff, watcher)
                 /\ watcher' \in {"none", "stopped"})
        /\ (cause' = "SystemExit(1)" /\ cause = ""
              => siglog' = siglog \o InOrder(ff, "none"))
        /\ \A i \in 1..Len(siglog') :
              siglog'[i].to \in {"decoder", "encoder"} => siglog'[i].alive ]_vars

C6_Witness ==
    /\ cause = "KeyboardInterrupt" /\ pc = "close" /\ watcher = "stopped"
    /\ siglog = << [to |-> "decoder", alive |-> TRUE],
                   [to |-> "encoder", alive |-> TRUE],
                   [to |-> "watcher", alive |-> TRUE] >>

\* ------------------------------------------------------------------------
\* the first clip after a cold start
\* ------------------------------------------------------------------------

\* the call of timed_source for the first clip, at or after day_start
FirstCall == pc = "popen" /\ call.made /\ call.first /\ call.now >= cfg.start
             /\ Len(yielded) = 1

Clip(x, lo, hi) == IF x < lo THEN lo ELSE IF x > hi THEN hi ELSE x

\* the clip would end after the window does
EndsLate == pc = "list_end" /\ it.begin + it.out + call.time_delta > RefTime

HourCall(late) ==
    /\ pc = "timed" /\ cfg.length = 3600 * Sec /\ cfg.start = 21600 * Sec
    /\ call.begin = 25180 * Sec /\ call.seek = 0 /\ call.out = 60 * Sec
    /\ call.dur = 60 * Sec /\ ~call.first
    /\ call.now = 25180 * Sec + late /\ ~call.exit

\* C9 as stated: prepared at 25195, the clip goes to the list-end handler
\* with 20 s remaining, new_out = 20 s and the next playlist signalled.
C9_TwentyRemaining ==
    HourCall(15 * Sec)
    => /\ call.res.branch = "list_end"
       /\ RefTime - (call.begin + call.time_delta) = 20 * Sec
       /\ call.res.out = 20 * Sec
       /\ call.res.next_playlist

\* C9: prepared at 25195 the clip has delta = -15 s; it goes to the list-end
\* handler with 35 s remaining, new_out = 35 s and the next playlist
\* signalled (20 s are what is left when it is prepared on time, at 25180);
\* with stop_on_error the call ends the program instead.
C9_ThirtyFiveRemaining ==
    /\ HourCall(15 * Sec)
         => /\ call.res.branch = "list_end"
            /\ call.time_delta = -15 * Sec
            /\ RefTime - (call.begin + call.time_delta) = 35 * Sec
            /\ call.res.out = 35 * Sec
            /\ call.res.seek = 0
            /\ call.res.next_playlist
            /\ call.res.cmd = << T("-i"), T("a.mp4"), T("-t"), N("num", 35 * Sec) >>
    /\ HourCall(0)
         => /\ call.res.branch = "list_end"
            /\ call.res.out = 20 * Sec
            /\ call.res.next_playlist
    /\ pc = "timed" /\ cfg.length = 3600 * Sec /\ call.now = 25195 * Sec
         => call.exit = cfg.stop

C9_Witness == HourCall(15 * Sec) /\ call.res.out = 35 * Sec

\* ------------------------------------------------------------------------
\* a program shorter than the playlist length
\* ------------------------------------------------------------------------

RECURSIVE ProgLen(_)
\* the sum of out - in over the program
ProgLen(program) ==
    IF program = << >> THEN 0
    ELSE Head(program).out - Head(program).in + ProgLen(Tail(program))

\* the length an argument vector asks for: the d= of a dummy, or the -t
VecLen(cmd) ==
    IF \E i \in 1..Len(cmd) : cmd[i].s = "color"
    THEN (CHOOSE e \in {cmd[i] : i \in 1..Len(cmd)} : e.s = "color").n
    ELSE IF \E i \in 1..(Len(cmd) - 1) : cmd[i].s = "-t"
    THEN cmd[(CHOOSE i \in 1..(Len(cmd) - 1) : cmd[i].s = "-t") + 1].n
    ELSE -1

\* the run started at day_start and the clock has made no jump since: every
\* clip so far was prepared with delta = 0
InSync == clock.t0 = cfg.start /\ clock.jumps = 0

\* C10 as stated: with a program shorter than the configured playlist length
\* and playout in sync, the vector emitted after the last clip is a filler as
\* long as the deficit, from the filler clip if one is configured and else a
\* dummy, and the vector after it is no filler.
C10_OneFillerOfDeficit ==
    LET n == Len(disk.program)
        deficit == cfg.length - ProgLen(disk.program)
    IN  (cfg.mode = "playlist" /\ ~cfg.loop /\ cfg.length # 0
           /\ deficit > 0 /\ InSync /\ Len(yielded) > n)
        => /\ VecLen(yielded[n + 1]) = deficit
           /\ IF cfg.filler # ""
              THEN Contains(yielded[n + 1], cfg.filler)
              ELSE Contains(yielded[n + 1], "lavfi")
           /\ Len(yielded) > n + 1
                => /\ ~Contains(yielded[n + 2], "lavfi")
                   /\ cfg.filler # "" => ~Contains(yielded[n + 2], cfg.filler)

\* ------------------------------------------------------------------------
\* C11, C12: the playlist file is absent, or is not JSON
\* ------------------------------------------------------------------------

\* the vector the pump was handed last
LastYield == yielded[Len(yielded)]

\* eof_handling's length at the wall clock of the round: target + day_start
\* - now, now moved one target on when it is before day_start
DayLeft ==
    Abs(RefTime - (IF clock.now < cfg.start
                   THEN clock.now + TargetPlaytime(cfg) ELSE clock.now))

\* the dummy vector of the given length with its filter graph
DummyVec(len) == gen_dummy(len) \o build_filtergraph(TRUE, "")

\* C11: in every state of the iterator, also when a playlist loaded before
\* is still held, a round that finds the playlist file absent yields a dummy
\* of length target + day_start - now (modulo the day wrap), and the
\* iterator goes on loading: it neither returns nor raises.
C11_AbsentYieldsDummy ==
    (cfg.mode = "playlist" /\ disk.state = "absent")
    => /\ pc \in {"next", "popen"}
       /\ pc = "popen" => LastYield = DummyVec(DayLeft)

\* C12: a round that finds a playlist file that is not JSON does not raise;
\* it yields a dummy of eof_handling's length, and playout goes on.
C12_InvalidYieldsDummy ==
    (cfg.mode = "playlist" /\ disk.state = "invalid")
    => /\ exc # "Error"
       /\ pc \in {"next", "popen"}
       /\ pc = "popen" => LastYield = DummyVec(DayLeft)

\* ------------------------------------------------------------------------
\* C13: an entry whose source does not exist
\* ------------------------------------------------------------------------

\* the vector just yielded was prepared by peperation_task from an entry
\* whose source is no live URL and no file
PreparedMissing ==
    /\ cfg.mode = "playlist" /\ pc = "popen"
    /\ call.made /\ call.now = clock.now /\ call.src = MissingSrc
    /\ it.src = MissingSrc /\ it.src_cmd = call.res.cmd

\* the run plays ProgGone from day_start on, the file untouched
PlaysProgGone ==
    /\ cfg.mode = "playlist" /\ InSync
    /\ disk = [state |-> "ok", mtime |-> 1, program |-> ProgGone]

Remaining == call.target_playtime + cfg.start - (call.begin + call.time_delta)

\* handle_list_end makes the dummy itself, as long as what is left
ShortRest ==
    /\ call.res.branch = "list_end"
    /\ Remaining > DummyMinLen * Sec /\ Remaining <= SrcMinLen * Sec

NullProbe(path) == path # "" /\ ~ProbeOk(path)

\* C14: with the null record loaded, the iterator of either mode finishes
\* preparing the clip without raising, and its loop goes on.
C14_NullProbeNotFatal ==
    /\ (cfg.mode = "playlist" /\ NullProbe(it.probe)) => ~it.raised
    /\ (cfg.mode = "folder" /\ NullProbe(gs.probe))
         => exc # "Error" /\ pc \in {"next", "popen"}

\* ------------------------------------------------------------------------
\* C15: the input of an existing local file
\* ------------------------------------------------------------------------

\* the vector just yielded was prepared by peperation_task from an entry
\* whose source is an existing file, src_or_dummy was handed an out that is
\* not beyond the duration, and what it returned was yielded
FileInput ==
    /\ cfg.mode = "playlist" /\ pc = "popen"
    /\ call.made /\ call.now = clock.now /\ call.src \in FileSrcs
    /\ it.src = call.src /\ it.src_cmd = call.res.cmd
    /\ it.out <= call.dur
    /\ ~Contains(it.src_cmd, "lavfi")

\* the run plays ProgThirty, the file untouched, and started late ticks
\* after day_start
PlaysThirty(late) ==
    /\ cfg.mode = "playlist" /\ clock.t0 = cfg.start + late
    /\ disk = [state |-> "ok", mtime |-> 1, program |-> ProgThirty]

\* C15 as stated: for an existing local file with out <= duration the
\* source input is -ss seek -i src -t out-seek; the second clip of 30 s,
\* on time and inside the playlist length, gives -ss 0 -i src -t 30, and
\* the first clip of 30 s started 12 s late gives -ss 12 -i src -t 18, first
\* cleared and no next playlist signalled.
C15_SeekInputLength ==
    /\ FileInput
         => it.src_cmd = << T("-ss"), N("num", it.seek), T("-i"), T(it.src),
                            T("-t"), N("num", it.out - it.seek) >>
    /\ (PlaysThirty(0) /\ TargetPlaytime(cfg) > 60 * Sec /\ Len(yielded) >= 2)
         => yielded[2] = << T("-ss"), N("num", 0), T("-i"), T("b.mp4"),
                            T("-t"), N("num", 30 * Sec) >>
                         \o build_filtergraph(FALSE, "b.mp4")
    /\ (PlaysThirty(12 * Sec) /\ Len(yielded) >= 1)
         => /\ yielded[1] = << T("-ss"), N("num", 12 * Sec), T("-i"), T("a.mp4"),
                               T("-t"), N("num", 18 * Sec) >>
                            \o build_filtergraph(FALSE, "a.mp4")
            /\ ~it.first
            /\ (Len(yielded) = 1 /\ pc = "popen") => ~it.next_playlist

\* C15 amended: the source input is -i src, preceded by -ss seek only when
\* seek > 0 and followed by -t out-seek only when out < duration; the second
\* clip of 30 s, on time and inside the playlist length, gives -i src, and
\* the first clip of 30 s started 12 s late gives -ss 12 -i src, first
\* cleared and no next playlist signalled.
C15_SeekAndLengthWhenNeeded ==
    /\ FileInput
         => it.src_cmd =
              (IF it.seek > 0 THEN << T("-ss"), N("num", it.seek) >> ELSE << >>)
              \o << T("-i"), T(it.src) >>
              \o (IF it.out < call.dur
                  THEN << T("-t"), N("num", it.out - it.seek) >> ELSE << >>)
    /\ (PlaysThirty(0) /\ TargetPlaytime(cfg) > 60 * Sec /\ Len(yielded) >= 2)
         => yielded[2] = << T("-i"), T("b.mp4") >>
                         \o build_filtergraph(FALSE, "b.mp4")
    /\ (PlaysThirty(12 * Sec) /\ Len(yielded) >= 1)
         => /\ yielded[1] = << T("-ss"), N("num", 12 * Sec), T("-i"), T("a.mp4") >>
                            \o build_filtergraph(FALSE, "a.mp4")
            /\ ~it.first
            /\ (Len(yielded) = 1 /\ pc = "popen") => ~it.next_playlist

C15_Witness ==
    PlaysThirty(12 * Sec) /\ Len(yielded) = 1 /\ FileInput /\ it.seek = 12 * Sec

\* ------------------------------------------------------------------------
\* C16: the filter and map arguments of a vector
\* ------------------------------------------------------------------------

\* how often the argument s stands in the vector
Count(cmd, s) == Cardinality({i \in 1..Len(cmd) : cmd[i].s = s})

\* C16 as stated: every vector yielded by the playlist iterator or by the
\* folder source has exactly two -map arguments, and exactly one
\* -filter_complex argument when its input is a probed source (no dummy).
C16_OneFilterTwoMaps ==
    \A k \in 1..Len(yielded) :
        /\ Count(yielded[k], "-map") = 2
        /\ ~Contains(yielded[k], "lavfi")
             => Count(yielded[k], "-filter_complex") = 1

\* C16 amended: every vector yielded has exactly two -map arguments; it has
\* one -filter_complex argument when its filter graph is the dummy's (audio
\* mapped from 1:a) and two, one for video and one for audio, when the graph
\* was built from a probe.  The playlist iterator yields the dummy's graph
\* exactly when is_dummy is set, the folder source never.
C16_FiltersByGraphTwoMaps ==
    /\ \A k \in 1..Len(yielded) :
           /\ Count(yielded[k], "-map") = 2
           /\ Count(yielded[k], "-filter_complex")
                = IF Contains(yielded[k], "1:a") THEN 1 ELSE 2
    /\ (pc = "popen" /\ cfg.mode = "playlist")
         => (Contains(LastYield, "1:a") <=> it.is_dummy)
    /\ (pc = "popen" /\ cfg.mode = "folder") => ~Contains(LastYield, "1:a")

C16_Witness ==
    /\ Len(yielded) >= 2
    /\ Count(yielded[1], "-filter_complex") = 2
    /\ Count(yielded[2], "-filter_complex") = 1

\* ------------------------------------------------------------------------
\* C17, C18: the folder source over a store that does not change
\* ------------------------------------------------------------------------

\* the path a vector of the folder source plays
Path(cmd) == cmd[2].s

\* C17: in shuffle mode, over a store of N >= 2 paths that does not change,
\* no path stands twice in any N \div 2 + 1 consecutive emissions: two
\* emissions at most N \div 2 apart are of different paths.
C17_NoRepeatInWindow ==
    (cfg.mode = "folder" /\ cfg.shuffle /\ Len(store) >= 2)
    => \A i, j \in 1..Len(yielded) :
           (i < j /\ j - i <= Len(store) \div 2)
           => Path(yielded[i]) # Path(yielded[j])

C17_Witness ==
    /\ cfg.mode = "folder" /\ cfg.shuffle
    /\ Len(store) = 4 /\ Len(yielded) = 4
    /\ Path(yielded[4]) = Path(yielded[1])

\* C18: in sorted mode, over a store of n paths that does not change, the
\* k-th vector yielded plays store[(k - 1) mod n]: the paths in the store's
\* order, each once per pass, and index 0 again after the last; and the
\* store's order is the lexicographic one.
C18_SortedRoundRobin ==
    (cfg.mode = "folder" /\ ~cfg.shuffle)
    => /\ \A k \in 1..Len(yielded) :
              Path(yielded[k]) = store[((k - 1) % Len(store)) + 1]
       /\ \A i, j \in 1..Len(store) : i < j => Rank(store[i]) < Rank(store[j])

C18_Witness ==
    /\ cfg.mode = "folder" /\ ~cfg.shuffle
    /\ Len(store) = 3 /\ Len(yielded) = 4 /\ Path(yielded[4]) = store[1]

\* ------------------------------------------------------------------------
\* C19: the watcher's thread and the folder source
\* ------------------------------------------------------------------------

\* C19: the watcher's changes of the store (add or remove, then sort) and
\* the folder source's reads exclude each other: in sorted mode the source
\* never indexes past the end of the store, never reads the store between a
\* change and its sort, and never yields another path than the one it has
\* just probed.
C19_WatcherExcluded ==
    (cfg.mode = "folder" /\ ~cfg.shuffle)
    => /\ exc # "IndexError"
       /\ ~media.torn
       /\ pc = "popen" => Path(LastYield) = gs.probe

\* ------------------------------------------------------------------------
\* C20: fill() twice
\* ------------------------------------------------------------------------

\* C20: after a second fill() on a folder that has not changed since the
\* first, the store equals the store after the first.
C20_FillIdempotent ==
    (media.fills = 2 /\ media.events = 0) => store = media.first

\* ------------------------------------------------------------------------
\* C21: the mails of eof_handling
\* ------------------------------------------------------------------------

\* C21: over any sequence of eof_handling calls, the same message is mailed
\* at most once in 3600 s, and every call writes the message to the log.
C21_MailedOncePerHour ==
    /\ \A i, j \in 1..Len(mail.sent) :
           (i < j /\ mail.sent[i].msg = mail.sent[j].msg)
           => mail.sent[j].stamp - mail.sent[i].stamp >= MailEvery * Sec
    /\ Len(mail.logged) >= mail.calls

\* ------------------------------------------------------------------------
\* C22: the logo stage
\* ------------------------------------------------------------------------

\* the run plays the program from day_start on, the file untouched
PlaysUntouched(program) ==
    /\ cfg.mode = "playlist" /\ InSync
    /\ disk = [state |-> "ok", mtime |-> 1, program |-> program]

\* the logo is enabled and its file exists
LogoOn == conf.ns.add_logo /\ conf.ns.logo \in LogoFiles

\* the length the logo stage is made for: out - seek, seek taken as 0 for a
\* looped clip
LogoLen == IF it.out > it.duration THEN it.out ELSE it.out - it.seek

\* the k-th vector of the run has just been yielded
JustYielded(k) == pc = "popen" /\ Len(yielded) = k

RECURSIVE StartOf(_)
StartOf(i) ==
    IF i = 1 THEN it.init_time
    ELSE StartOf(i - 1) + it.program[i - 1].out - it.program[i - 1]["in"]

\* the round that has just yielded prepared entry i of the loaded program
Prepared(i) ==
    /\ cfg.mode = "playlist" /\ pc = "popen" /\ it.loaded
    /\ it.src = it.program[i].source
    /\ it.begin = StartOf(i)

\* entry i of the loaded program is an advertisement; an entry out of range
\* is none
AdAt(i) ==
    /\ i \in 1..Len(it.program)
    /\ HasCategory(it.program[i])
    /\ IsAd(it.program[i])

\* C27: after entry i is prepared, ad, ad_last and ad_next say whether entry
\* i, entry i - 1 and entry i + 1 are advertisements, an entry out of range
\* counting as none, whatever was prepared before.
C27_AdFlags ==
    \A i \in 1..Len(it.program) :
        Prepared(i) => /\ it.ad = AdAt(i)
                       /\ it.ad_last = AdAt(i - 1)
                       /\ it.ad_next = AdAt(i + 1)

\* ------------------------------------------------------------------------
\* C24: what the list-end handler emits
\* ------------------------------------------------------------------------

\* remaining = (day_start + target) - (begin + delta) of the call made
ListEndLeft == RefTime - (it.begin + call.time_delta)

\* the vector that plays a file from seek to out, out within the file
FileCut(src, dur, seek, out) ==
    (IF seek > 0 THEN << T("-ss"), N("num", seek) >> ELSE << >>)
    \o << T("-i"), T(src) >>
    \o (IF out < dur THEN << T("-t"), N("num", out - seek) >> ELSE << >>)

TaskDone(i) ==
    /\ cfg.mode = "playlist" /\ it.loaded /\ ~it.raised /\ cause = ""
    /\ it.src = it.program[i].source
    /\ it.begin = StartOf(i)

\* the for loop of GetSourceIter.next, run now, would select no entry
NoneSelected == Walk([it EXCEPT !.begin = it.init_time], 1).sel = 0

\* C26 as stated: the round that prepares a clip sets last_time to begin
\* without the signal; with the signal and a playlist length below 86400 it
\* sets it to 2 * 86400; with any other signal it resets list_date,
\* last_mod_time and last_time.
C26_LastTimeBelowDay ==
    [][ \A i \in 1..Len(it'.program) :
          (it' # it /\ TaskDone(i)')
          => /\ ~it'.next_playlist => it'.last_time = it'.begin
             /\ (it'.next_playlist /\ cfg.length < Day)
                  => it'.last_time = 2 * Day
             /\ (it'.next_playlist /\ ~(cfg.length < Day))
                  => /\ it'.list_date = clock.today
                     /\ it'.last_mod_time = 0
                     /\ it'.last_time = cfg.start - 1 ]_vars

\* C26: the round that prepares a clip sets last_time to begin without the
\* signal; with the signal and a playlist length other than 86400, shorter
\* or longer, it sets it to 2 * 86400, and the walk then selects no entry;
\* with the signal and a length of 86400 it sets list_date to today,
\* last_mod_time to 0 and last_time to day_start - 1.
C26_LastTimeBySignal ==
    [][ \A i \in 1..Len(it'.program) :
          (it' # it /\ TaskDone(i)')
          => /\ ~it'.next_playlist => it'.last_time = it'.begin
             /\ (it'.next_playlist /\ cfg.length # Day)
                  => it'.last_time = 2 * Day /\ NoneSelected'
             /\ (it'.next_playlist /\ cfg.length = Day)
                  => /\ it'.list_date = clock.today
                     /\ it'.last_mod_time = 0
                     /\ it'.last_time = cfg.start - 1 ]_vars

C26_Witness ==
    /\ Len(it.program) = 3 /\ TaskDone(3)
    /\ it.next_playlist /\ cfg.length = Day + Window
    /\ it.last_time = 2 * Day /\ pc = "popen"

\* ------------------------------------------------------------------------
\* C29: the length of the shuffle history
\* ------------------------------------------------------------------------

Shuffling == cfg.mode = "folder" /\ cfg.shuffle

\* C29 as stated: in shuffle mode last_played never holds more than
\* floor(|store| / 2) paths.
C29_HistoryAtMostHalf ==
    Shuffling => Len(gs.last_played) <= Len(store) \div 2

\* last_played after the eviction of a round: without its oldest path when
\* it held more than |store| / 2 paths
Evicted ==
    IF Len(gs.last_played) * 2 > Len(store)
    THEN Tail(gs.last_played) ELSE gs.last_played

\* C29: in shuffle mode over a store that does not change, a round first
\* drops the oldest path when last_played holds more than |store| / 2 paths,
\* which leaves at most floor(|store| / 2) for the test of the chosen clip,
\* and then appends the clip when it is admitted: between rounds last_played
\* holds up to floor(|store| / 2) + 1 paths, never more.
C29_HistoryHalfPlusOne ==
    [][ Shuffling
        => /\ Len(gs'.last_played) <= Len(store') \div 2 + 1
           /\ gs'.last_played # gs.last_played
                => /\ Len(Evicted) <= Len(store) \div 2
                   /\ \/ gs'.last_played = Evicted
                      \/ \E clip \in Range(store) :
                            /\ ~InSeq(clip, Evicted)
                            /\ gs'.last_played = Append(Evicted, clip) ]_vars

C29_Witness ==
    /\ Shuffling /\ Len(store) = 4 /\ Len(gs.last_played) = 3
    /\ Len(yielded) = 4

\* ------------------------------------------------------------------------
\* C28: a source that has to be looped
\* ------------------------------------------------------------------------

\* src_or_dummy was called with the clip's own seek and out, for a file that
\* exists and is shorter than out
LoopedCall ==
    \/ /\ pc = "timed" /\ call.res.branch = "window"
       /\ call.src \in FileSrcs /\ call.out > call.dur
    \/ /\ pc = "list_end" /\ ListEndLeft <= 0
       /\ it.src \in FileSrcs /\ it.out > it.duration

\* C28: for a file that exists and out > duration, src_or_dummy returns the
\* stream-loop input, without a seek before it, whatever seek is.
C28_LoopedIsStreamLoop ==
    LoopedCall
    => /\ call.res.cmd[1] = T("-stream_loop")
       /\ ~Contains(call.res.cmd, "-ss")
       /\ pc = "timed"
            => call.res.cmd = loop_input(call.src, call.dur, call.out)
       /\ pc = "list_end"
            => call.res.cmd = loop_input(it.src, it.duration, it.out)

\* ------------------------------------------------------------------------
\* C30: a clip that fits the window
\* ------------------------------------------------------------------------

\* timed_source was called, with a playlist length and without --loop, for
\* a clip that is neither the first nor the last
MiddleCall ==
    /\ pc = "timed" /\ ~call.exit
    /\ cfg.length # 0 /\ ~cfg.loop
    /\ ~call.first /\ ~call.last

\* C30: a clip that is neither first nor last and whose play-through fits
\* the window, begin + delta + (out - seek) <= day_start + target, ending
\* exactly at the window's end included, is emitted with its seek and out
\* and without the signal for the next playlist.
C30_FitsIsUnchanged ==
    (MiddleCall /\ call.begin + call.time_delta + (call.out - call.seek)
                     <= RefTime)
    => /\ call.res.cmd = src_or_dummy(call.src, call.dur, call.seek, call.out)
       /\ call.res.seek = call.seek
       /\ call.res.out = call.out
       /\ ~call.res.next_playlist

\* ------------------------------------------------------------------------
\* C25: a walk that selects no entry
\* ------------------------------------------------------------------------

\* the object after get_playlist of the round that starts now
Loaded == get_playlist(it, cfg, clock, disk)

\* the for loop of that round
Walked == Walk([Loaded EXCEPT !.begin = Loaded.init_time], 1)

\* the round that starts now loads a playlist and walks past its last entry
WalkEnds ==
    /\ cfg.mode = "playlist" /\ pc = "next"
    /\ Loaded.loaded /\ ~Loaded.raised
    /\ Walked.sel = 0

\* C25: a round whose walk selects no entry: with --loop it sets init_time
\* to last_time + 1 and yields nothing; else without a playlist length the
\* iterator ends; else with begin = init_time it runs eof_handling with
\* filler false; else it runs eof_handling with filler true.
C25_WalkEndsTable ==
    [][ (WalkEnds /\ disk' = disk)
        => IF cfg.loop
           THEN /\ it'.init_time = it'.last_time + 1
                /\ yielded' = yielded /\ pc' = "next"
           ELSE IF cfg.length = 0
           THEN pc' = "close" /\ yielded' = yielded
           ELSE IF Walked.it.begin = Walked.it.init_time
           THEN it' = eof_handling(Walked.it, cfg, clock, FALSE)
           ELSE it' = eof_handling(Walked.it, cfg, clock, TRUE) ]_vars

\* ------------------------------------------------------------------------
\* C23: what a reload changes
\* ------------------------------------------------------------------------

\* the step is a call of handle_sighub
Reloads == mail'.logged # mail.logged

\* C23: a reload leaves width, height, aspect, fps, the bitrate and bufsize
\* derived from the width, the output address and the post-compression
\* arguments as they were, whatever the file holds now, and sets the
\* reloadable fields to what the file holds: the logo settings, the playlist
\* length, the drift settings, and day_start (read as at startup: 00:00:00
\* gives the time of the call).
C23_ReloadKeepsFrame ==
    [][ Reloads
        => /\ conf'.ns.w = conf.ns.w /\ conf'.ns.h = conf.ns.h
           /\ conf'.ns.aspect = conf.ns.aspect /\ conf'.ns.fps = conf.ns.fps
           /\ conf'.ns.v_bitrate = conf.ns.v_bitrate
           /\ conf'.ns.v_bufsize = conf.ns.v_bufsize
           /\ conf'.ns.out_addr = conf.ns.out_addr
           /\ conf'.ns.post_comp = conf.ns.post_comp
           /\ conf'.ns.v_bitrate = 50 * conf'.ns.w
           /\ 2 * conf'.ns.v_bufsize = conf'.ns.v_bitrate
           /\ conf'.ns.add_logo = conf.file.add_logo
           /\ conf'.ns.logo = conf.file.logo
           /\ cfg'.length = conf.file.length
           /\ cfg'.stop = conf.file.stop
           /\ cfg'.threshold = conf.file.threshold
           /\ cfg'.start = (IF conf.file.day_start = 0 THEN clock.now
                            ELSE conf.file.day_start)
           /\ conf'.file = conf.file ]_vars

\* a reload has read a file with another frame and other reloadable
\* settings than the ones at startup
C23_Witness ==
    /\ Len(mail.logged) = 1
    /\ conf.ns.w # conf.file.width /\ conf.ns.out_addr # conf.file.out_addr
    /\ conf.ns.add_logo = conf.file.add_logo
    /\ cfg.length = conf.file.length /\ cfg.stop = conf.file.stop
    /\ cfg.start = conf.file.day_start
    /\ cfg.start # it.init_time

\* ------------------------------------------------------------------------
\* C31: the order of the entries
\* ------------------------------------------------------------------------

\* the round that starts now finds the document it has loaded
Unchanged == Loaded = it

\* C31: while the document is unchanged and no next playlist is signalled,
\* the walk after the one that prepared entry i selects entry i + 1, and
\* none after the last entry, whatever the entries' lengths.
C31_IndexOrder ==
    \A i \in 1..Len(it.program) :
        (TaskDone(i) /\ ~it.next_playlist /\ Unchanged)
        => Walked.sel = (IF i < Len(it.program) THEN i + 1 ELSE 0)

\* ------------------------------------------------------------------------
\* C32: where the catch-up clip is entered
\* ------------------------------------------------------------------------

\* timed_source was called for the first clip, e = now - begin into an entry
\* that plays from its in point to out, 1 s <= e < out - in
CatchUp ==
    /\ pc = "timed" /\ call.first /\ ~call.exit
    /\ call.seek >= 0
    /\ call.now - call.begin >= Sec
    /\ call.now - call.begin < call.out - call.seek

\* C32: the catch-up clip's effective seek is its in point plus the time
\* elapsed since its scheduled begin, and is below out.
C32_CatchUpSeek ==
    CatchUp
    => /\ call.res.seek = call.seek + (call.now - call.begin)
       /\ call.res.seek < call.out

\* ------------------------------------------------------------------------
\* C34: watcher events for a path the store does not hold
\* ------------------------------------------------------------------------

IsSorted(q) == \A i \in 1..(Len(q) - 1) : Rank(q[i]) <= Rank(q[i + 1])

\* C34: a delete or move event whose source path is not in the store does
\* not raise; the delete leaves the store as it was, the move still inserts
\* the destination path, and the store is sorted after the event
C34_AbsentSourceQuiet ==
    [][ \A path \in WatchPaths :
          ~InSeq(path, store)
          => /\ MediaWatcher_on_deleted(path)
                => (exc' = "" /\ store' = store /\ IsSorted(store'))
             /\ \A dest \in WatchPaths \ {path} :
                  MediaWatcher_on_moved(path, dest)
                  => (exc' = "" /\ InSeq(dest, store') /\ IsSorted(store')) ]_vars

\* ------------------------------------------------------------------------
\* the folder source started on an empty folder, with the watcher adding
\* files: GetSource.next runs its rounds and each clip is played to its end
\* ------------------------------------------------------------------------

InitEmpty ==
    /\ cfg \in FolderConfigs
    /\ clock = [now |-> 0, today |-> 1, jumps |-> 0, t0 |-> 0]
    /\ disk = [state |-> "absent", mtime |-> 0, program |-> << >>]
    /\ it = NewIter(cfg, clock)
    /\ store = << >>
    /\ gs = NewSource
    /\ watcher = "running"
    /\ conf = NoConf
    /\ InitIterCommon

NextEmpty ==
    \/ NextFolder
    \/ PlayClip
    \/ add

\* the main loop calls next() again whenever the generator has not yielded,
\* and a started clip plays to its end
SpecEmpty ==
    InitEmpty /\ [][NextEmpty]_vars /\ WF_vars(NextFolder) /\ WF_vars(PlayClip)

\* a vector for this file has been yielded
YieldedFile(path) == \E k \in 1..Len(yielded) : yielded[k][2] = T(path)

\* C33: with an empty store a round of next() neither raises nor ends the
\* generator nor yields, and a file the watcher has added is yielded in the
\* end (as far as the bound on the yields lets the run go), in both modes
C33_EmptyStoreWaits ==
    /\ [][ (store = << >> /\ NextFolder)
           => (exc' = "" /\ pc' = "next" /\ yielded' = yielded) ]_vars
    /\ \A path \in WatchPaths :
         InSeq(path, store) ~> (YieldedFile(path) \/ Len(yielded) = MaxEmit)

\* ------------------------------------------------------------------------
\* the preparation of one clip with SIGHUP: the handler runs in the main
\* thread between two bytecodes, so between get_delta's reads of the
\* namespaces and timed_source's
\* ------------------------------------------------------------------------

\* the clip starts at a full second near the end of the window
ReloadBegins == { b * Sec : b \in 10..16 }

\* load_config has run at import on some file, and get_input is about to
\* call timed_source for a clip that is not the first
InitReload ==
    /\ \E now \in {0, 5 * Sec} :
         clock = [now |-> now, today |-> 1, jumps |-> 0, t0 |-> now]
    /\ \E f \in ConfFiles :
         LET r == load_config([load |-> TRUE, file |-> f, ns |-> NoConf.ns],
                              BlankConfig, clock.now)
         IN  cfg = r.cfg /\ conf = r.conf
    /\ \E begin \in ReloadBegins, out \in {Sec, 4 * Sec}, last \in BOOLEAN :
         it = Args(cfg, clock, "a.mp4", begin, 4 * Sec, 0, out, FALSE, last)
    /\ call = NoCall
    /\ pc = "args_timed"
    /\ disk = [state |-> "absent", mtime |-> 0, program |-> << >>]
    /\ store = << >>
    /\ gs = NewSource
    /\ watcher = "none"
    /\ pending = ""
    /\ exc = ""
    /\ cause = ""
    /\ ff = [decoder |-> "none", encoder |-> "running"]
    /\ todo = 0
    /\ pipe = << >>
    /\ buf = << >>
    /\ dec_log = << >>
    /\ enc_in = << >>
    /\ yielded = << >>
    /\ siglog = << >>
    /\ exit_status = -1
    /\ media = NoMedia(store)
    /\ mail = [NoMail EXCEPT !.timestamp = Stamp(clock)]

\* "target_playtime, time_delta = get_delta(begin, seek, first)", the first
\* statement of timed_source: sys.exit(1) when the drift is over the
\* threshold
GetDelta ==
    /\ pc = "args_timed"
    /\ LET gd == get_delta(cfg, clock.now, it.begin, it.seek, it.first)
       IN  /\ call' = [Call(it, clock.now, gd, NoCall.res) EXCEPT !.made = FALSE]
           /\ pc' = IF gd.exit THEN "done" ELSE "delta"
           /\ exit_status' = IF gd.exit THEN 1 ELSE exit_status
    /\ UNCHANGED << cfg, clock, disk, it, store, gs, exc, cause, ff, watcher, todo,
                    pipe, buf, dec_log, enc_in, yielded, siglog, pending,
                    media, mail, conf >>

\* the rest of timed_source, from "ref_time = target_playtime +
\* _playlist.start" on
TimedSource ==
    /\ pc = "delta"
    /\ call' = timed_call(it, cfg, call.now,
                          [target_playtime |-> call.target_playtime,
                           time_delta |-> call.time_delta, exit |-> call.exit])
    /\ pc' = "timed"
    /\ UNCHANGED << cfg, clock, disk, it, store, gs, exc, cause, ff, watcher, todo,
                    pipe, buf, dec_log, enc_in, yielded, siglog, pending,
                    exit_status, media, mail, conf >>

NextReload ==
    \/ GetDelta
    \/ TimedSource
    \/ HandleSighub
    \/ EditConfig

SpecReload == InitReload /\ [][NextReload]_vars

\* _playlist and _general as load_config leaves them for the file f
Version(f) == load_config([conf EXCEPT !.file = f], cfg, call.now).cfg

====
